---------------------------- MODULE Spec2Model ----------------------------
(***************************************************************************)
(* Model of the shared detection machinery of eslint-rules-zayat:          *)
(*   - traverseNode, the generic tree walker (utils/ast-helpers);          *)
(*   - the no-empty-catch detector and its fix;                            *)
(*   - the one-component-per-file detector;                                *)
(*   - the no-response-data-return detector;                               *)
(*   - the host running the three detectors over a sequence of files;      *)
(*   - the no-nested-ternary and boolean-naming-convention detectors.      *)
(* Each part has its own initial condition and actions; a part that is not *)
(* running keeps its variables at their idle values.                       *)
(***************************************************************************)
EXTENDS Integers, Sequences, FiniteSets, TLC

VARIABLES
    heap,       \* walker input: the node graph (argument, body, parent per node)
    wstack,     \* walker: the JS call stack of traverse(), innermost frame last
    visited,    \* walker: the WeakSet of nodes already entered
    visits,     \* walker: the nodes the visitor callback was invoked with, in order
    wpc,        \* walker: "idle", "run", "done" (returned) or "threw" (visitor raised)
    orig,       \* no-empty-catch: the srcText text of the file as first linted
    text,       \* no-empty-catch: the current srcText text (after the fixes applied)
    diags,      \* no-empty-catch: the diagnostics reported by the last lint pass
    fixes,      \* no-empty-catch: the number of fixes the host has applied
    cpc,        \* no-empty-catch: "idle", "source", "linted", "fixed", "syntaxError"
    file,       \* one-component-per-file: the nodes of the file the host dispatches, in order
    pos,        \* one-component-per-file: the number of nodes dispatched so far
    components, \* one-component-per-file: the ComponentInfo list of create()
    compoundChildren, \* one-component-per-file: the Set of compound child names
    reports,    \* one-component-per-file: the diagnostics reported
    opc,        \* one-component-per-file: "idle", "visiting", "exited";
                \*   "crashed" when an error left a handler
    filename,   \* no-response-data-return: context.filename, as path symbols
    handlers,   \* no-response-data-return: the node types create() returned handlers for
    returnsSeen, \* no-response-data-return: the return statements the host has traversed
    svcReports, \* no-response-data-return: the diagnostics reported
    spc,        \* no-response-data-return: "idle", "new", "created"; "host" in a
                \*   host session
    srcText,    \* fix synthesis: the text of the module, as tokens
    importAnalysis, \* fix synthesis: the ReactImportAnalysis
    chosen,     \* fix synthesis: the MemoStrategy, or the TypeAnnotationStrategy
    componentAt, \* fix synthesis: the index in Program.body of the component to annotate
    fixEdits,   \* fix synthesis: the edits that updateImports or addTypeAnnotation returned
    fixSuccess, \* fix synthesis: the success flag that addTypeAnnotation returned
    mdiags,     \* fix synthesis: the diagnostics of the memoized-export detector
    fpc,        \* fix synthesis: "idle"; "parsed", "analyzed", "selected",
                \*   "updated", "fixed", "linted"; "component", "strategy",
                \*   "annotated", "rewritten"
    earlier,    \* host: the names that the create() calls of earlier files collected
    program,    \* style detectors: the expression, or the declarators, of the file
    todo,       \* style detectors: the nodes the traversal has still to reach, next first
    options,    \* style detectors: the options the caller supplied
    sdiags,     \* style detectors: the diagnostics reported
    stpc        \* style detectors: "idle", "ternary" or "naming"

vars == <<heap, wstack, visited, visits, wpc, orig, text, diags, fixes, cpc,
          file, pos, components, compoundChildren, reports, opc,
          filename, handlers, returnsSeen, svcReports, spc,
          srcText, importAnalysis, chosen, componentAt, fixEdits, fixSuccess, mdiags, fpc,
          earlier, program, todo, options, sdiags, stpc>>

walkVars == <<heap, wstack, visited, visits, wpc>>

catchVars == <<orig, text, diags, fixes, cpc>>

compVars == <<file, pos, components, compoundChildren, reports, opc>>

svcVars == <<filename, handlers, returnsSeen, svcReports, spc>>

fixVars == <<srcText, importAnalysis, chosen, componentAt, fixEdits, fixSuccess, mdiags, fpc>>

hostVars == <<earlier>>

styleVars == <<program, todo, options, sdiags, stpc>>

notWalk == <<catchVars, compVars, svcVars, fixVars, hostVars, styleVars>>

notCatch == <<walkVars, compVars, svcVars, fixVars, hostVars, styleVars>>

notComp == <<walkVars, catchVars, svcVars, fixVars, hostVars, styleVars>>

notSvc == <<walkVars, catchVars, compVars, fixVars, hostVars, styleVars>>

notFix == <<walkVars, catchVars, compVars, svcVars, hostVars, styleVars>>

\* the values of the fix synthesis variables that are not yet set
Unset == [type |-> "null"]

HostIdle == earlier = {}

StyleIdle ==
    /\ program = <<>>
    /\ todo = <<>>
    /\ options = Unset
    /\ sdiags = <<>>
    /\ stpc = "idle"

FixIdle ==
    /\ srcText = <<>>
    /\ importAnalysis = Unset
    /\ chosen = Unset
    /\ componentAt = 0
    /\ fixEdits = <<>>
    /\ fixSuccess = FALSE
    /\ mdiags = <<>>
    /\ fpc = "idle"

SvcIdle ==
    /\ filename = <<>>
    /\ handlers = {}
    /\ returnsSeen = 0
    /\ svcReports = <<>>
    /\ spc = "idle"

CompIdle ==
    /\ file = <<>>
    /\ pos = 0
    /\ components = <<>>
    /\ compoundChildren = {}
    /\ reports = <<>>
    /\ opc = "idle"

CatchIdle ==
    /\ orig = <<>>
    /\ text = <<>>
    /\ diags = <<>>
    /\ fixes = 0
    /\ cpc = "idle"

(***************************************************************************)
(* Bounds                                                                  *)
(***************************************************************************)
\* number of node objects of a walked graph
MaxNodes == 3
\* greatest length of the array-valued field of the root node
MaxArr == 2

NodeIds == 1..MaxNodes
\* 0 stands for null / undefined in a node-valued field
NoNode == 0
Root == 1

RECURSIVE SeqsUpTo(_, _)
\* all sequences over S of length at most n
SeqsUpTo(S, n) ==
    IF n = 0 THEN {<<>>}
    ELSE LET shorter == SeqsUpTo(S, n - 1)
         IN  shorter \cup {Append(s, x) : s \in {t \in shorter : Len(t) = n - 1}, x \in S}

(***************************************************************************)
(* Node model.  A node object has the own keys Keys, in this order.        *)
(***************************************************************************)
Keys == <<"type", "argument", "body", "range", "loc", "parent">>

NullValue == [kind |-> "null", id |-> NoNode, items |-> <<>>]
ScalarValue == [kind |-> "scalar", id |-> NoNode, items |-> <<>>]
\* an object without a "type" property, such as loc
PlainObject == [kind |-> "object", id |-> NoNode, items |-> <<>>]
NodeValue(n) == IF n = NoNode THEN NullValue ELSE [kind |-> "node", id |-> n, items |-> <<>>]
ArrayValue(items) == [kind |-> "array", id |-> NoNode, items |-> items]

\* currentNode[key]
FieldValue(h, n, key) ==
    CASE key = "type" -> ScalarValue
      [] key = "argument" -> NodeValue(h.argument[n])
      [] key = "body" -> ArrayValue([i \in 1..Len(h.body[n]) |-> NodeValue(h.body[n][i])])
      [] key = "range" -> ArrayValue(<<ScalarValue, ScalarValue>>)
      [] key = "loc" -> PlainObject
      [] key = "parent" -> NodeValue(h.parent[n])

\* mutant of SkippedKey: the parent back-reference is followed like a child
SkippedKey_FollowsParent(key) == FALSE

\* `if (key === "parent") continue;`
SkippedKey(key) == key = "parent"

\* `child && typeof child === "object"`
IsObject(v) == v.kind \in {"node", "array", "object"}

\* `"type" in item`
HasType(v) == v.kind = "node"

RECURSIVE ArrayCalls(_, _)
\* the inner loop over an array child: the items traverse() is called with
ArrayCalls(items, j) ==
    IF j > Len(items) THEN <<>>
    ELSE IF IsObject(items[j]) /\ HasType(items[j])
         THEN <<items[j].id>> \o ArrayCalls(items, j + 1)
         ELSE ArrayCalls(items, j + 1)

RECURSIVE KeyCalls(_, _, _)
\* the loop over Object.keys(currentNode): the nodes traverse() is called
\* with, in call order
KeyCalls(h, n, i) ==
    IF i > Len(Keys) THEN <<>>
    ELSE LET key == Keys[i]
             child == FieldValue(h, n, key)
             rest == KeyCalls(h, n, i + 1)
         IN  IF SkippedKey(key) THEN rest
             ELSE IF ~IsObject(child) THEN rest
             ELSE IF child.kind = "array" THEN ArrayCalls(child.items, 1) \o rest
             ELSE IF HasType(child) THEN <<child.id>> \o rest
             ELSE rest

\* mutant of AlreadyVisited: the visited set is never consulted
AlreadyVisited_NoGuard(vis, n) == FALSE

\* `if (visited.has(currentNode)) return;`
AlreadyVisited(vis, n) == n \in vis

(***************************************************************************)
(* traverseNode(node, visitor), one recursive call or return per step.     *)
(* A frame is [node, next]: the node being expanded and the index of the   *)
(* next call of KeyCalls to make.                                          *)
(***************************************************************************)
\* The graphs walked: the root holds a `body` array of nodes and holes, every
\* other node an `argument` field (a node or null); any field may point at
\* any node, so the graphs include shared nodes and cycles.  A non-root
\* node's parent is the root; the root's parent is the last node, which may
\* or may not be reachable structurally.
Heaps ==
    { [argument |-> [n \in NodeIds |-> IF n = Root THEN NoNode ELSE a[n]],
       body |-> [n \in NodeIds |-> IF n = Root THEN b ELSE <<>>],
       parent |-> [n \in NodeIds |-> IF n = Root THEN MaxNodes ELSE Root]] :
      a \in [NodeIds \ {Root} -> 0..MaxNodes], b \in SeqsUpTo(0..MaxNodes, MaxArr) }

WalkIdle ==
    /\ heap = [argument |-> <<>>, body |-> <<>>, parent |-> <<>>]
    /\ wstack = <<>>
    /\ visited = {}
    /\ visits = <<>>
    /\ wpc = "off"

WalkInit ==
    /\ CatchIdle /\ CompIdle /\ SvcIdle /\ FixIdle /\ HostIdle /\ StyleIdle
    /\ heap \in Heaps
    /\ wstack = <<>>
    /\ visited = {}
    /\ visits = <<>>
    /\ wpc = "idle"

\* traverse(currentNode) on a node not yet visited: mark it, call the visitor,
\* then start the loop over its keys.  The visitor either returns or raises;
\* nothing catches the error, so it unwinds every frame of the recursion.
Enter(n, rest, throws) ==
    /\ visited' = visited \cup {n}
    /\ visits' = Append(visits, n)
    /\ IF throws
       THEN /\ wstack' = <<>>
            /\ wpc' = "threw"
       ELSE /\ wstack' = Append(rest, [node |-> n, next |-> 1])
            /\ wpc' = "run"

\* traverseNode(node, visitor): a fresh visited set and the outermost call
Start ==
    /\ wpc = "idle"
    /\ \E throws \in BOOLEAN : Enter(Root, <<>>, throws)
    /\ UNCHANGED <<heap, notWalk>>

Top == wstack[Len(wstack)]

Below == SubSeq(wstack, 1, Len(wstack) - 1)

Advanced == Append(Below, [Top EXCEPT !.next = @ + 1])

PendingCall == KeyCalls(heap, Top.node, 1)[Top.next]

HasPendingCall == Top.next <= Len(KeyCalls(heap, Top.node, 1))

\* a recursive call traverse(child) on a node seen for the first time
Descend ==
    /\ wpc = "run" /\ wstack # <<>>
    /\ HasPendingCall
    /\ ~AlreadyVisited(visited, PendingCall)
    /\ \E throws \in BOOLEAN : Enter(PendingCall, Advanced, throws)
    /\ UNCHANGED <<heap, notWalk>>

\* a recursive call traverse(child) that returns at once: child already visited
SkipVisited ==
    /\ wpc = "run" /\ wstack # <<>>
    /\ HasPendingCall
    /\ AlreadyVisited(visited, PendingCall)
    /\ wstack' = Advanced
    /\ UNCHANGED <<heap, visited, visits, wpc, notWalk>>

\* the loop over the keys is over: traverse(currentNode) returns
Return ==
    /\ wpc = "run" /\ wstack # <<>>
    /\ ~HasPendingCall
    /\ wstack' = Below
    /\ wpc' = IF Below = <<>> THEN "done" ELSE "run"
    /\ UNCHANGED <<heap, visited, visits, notWalk>>

WalkNext == Start \/ Descend \/ SkipVisited \/ Return

WalkSpec == WalkInit /\ [][WalkNext]_vars

(***************************************************************************)
(* Properties of the walker                                                *)
(***************************************************************************)
\* the structural (non-parent) successors of a node, read off the graph
StructuralChildren(h, n) ==
    ({h.argument[n]} \cup {h.body[n][i] : i \in 1..Len(h.body[n])}) \ {NoNode}

RECURSIVE ReachableVia(_, _, _)
\* the nodes reachable from the set S by structural fields, never leaving
\* through a node of Stop
ReachableVia(h, S, Stop) ==
    LET next == S \cup UNION {StructuralChildren(h, n) : n \in S \ Stop}
    IN  IF next = S THEN S ELSE ReachableVia(h, next, Stop)

Reachable(h) == ReachableVia(h, {Root}, {})

VisitCount(n) == Cardinality({i \in 1..Len(visits) : visits[i] = n})

\* the number of structural references to n held by reachable nodes
InDegree(h, n) ==
    Cardinality({m \in Reachable(h) : h.argument[m] = n})
    + Cardinality({<<m, i>> \in Reachable(h) \X (1..MaxArr + 1) :
                     i <= Len(h.body[m]) /\ h.body[m][i] = n})

\* C1: traverseNode invokes the visitor exactly once for every node reachable
\* from the root through non-parent fields (also a node reachable by two
\* structural paths) and never for a node reachable only through `parent`:
\* no node is ever visited twice, and when the call returns the visited nodes
\* are exactly the structurally reachable ones.
C1_VisitOnce ==
    /\ \A n \in NodeIds : VisitCount(n) <= 1
    /\ wpc = "done" =>
         \A n \in NodeIds : VisitCount(n) = IF n \in Reachable(heap) THEN 1 ELSE 0

\* a finished walk of a graph with a node that two structural references
\* lead to and with a node that only the root's parent field leads to
C1_Witness ==
    /\ wpc = "done"
    /\ \E n \in Reachable(heap) \ {Root} : InDegree(heap, n) >= 2
    /\ heap.parent[Root] \notin Reachable(heap)

\* some reachable node lies on a cycle of non-parent fields
HasCycle(h) ==
    \E n \in Reachable(h) : n \in ReachableVia(h, StructuralChildren(h, n), {})

\* the calls a frame has still to make, plus its own return
FrameWork(f) == Len(KeyCalls(heap, f.node, 1)) - f.next + 2

RECURSIVE StackWork(_)
StackWork(st) == IF st = <<>> THEN 0 ELSE FrameWork(st[1]) + StackWork(Tail(st))

\* a bound on the work of one frame
FrameBound == Len(Keys) + MaxArr + 1

\* a variant of the walk: unvisited nodes first, then pending calls and returns
Measure ==
    Cardinality(NodeIds \ visited) * FrameBound
    + (IF wpc = "idle" THEN FrameBound ELSE StackWork(wstack))

\* C2: traverseNode terminates on every finite node graph, cyclic ones
\* included: every step strictly decreases a natural-number variant (the
\* visited set stops the descent at a node already visited), and the walk is
\* never stuck before it has returned or raised.
C2_Terminates ==
    /\ [][Measure' < Measure]_vars
    /\ [](Measure >= 0)
    /\ [](wpc \in {"done", "threw"} \/ ENABLED WalkNext)

\* a walk that returned normally from a graph with a cycle
C2_Witness == wpc = "done" /\ HasCycle(heap)

\* C3: when the visitor raises on a node, only the remaining work for that
\* node is aborted: every node reachable without passing through the raising
\* node (its siblings, the rest of the tree) is still visited.
C3_SiblingsSurviveThrow ==
    wpc = "threw" =>
      \A n \in ReachableVia(heap, {Root}, {visits[Len(visits)]}) : VisitCount(n) = 1

(***************************************************************************)
(* Source text.  A text is a sequence of symbols; offsets count symbols,   *)
(* so the symbol at index i covers the range [i-1, i).                     *)
(***************************************************************************)
\* greatest number of items (statements, comments, line breaks) in a catch body
MaxBody == 2

\* comment texts; only some of them state the intent to ignore
CommentTexts ==
    {"intentionally ignored", "Intentionally Ignore", "deliberately ignored",
     "ignore error", "NO-OP", "noop", "ignored", "Empty!"}

\* mutant of Lower: the patterns lack the /i flag
Lower_CaseSensitive(c) == c

\* String.prototype match under the /i flag: the text with its case folded
Lower(c) ==
    CASE c = "Intentionally Ignore" -> "intentionally ignore"
      [] c = "NO-OP" -> "no-op"
      [] c = "Empty!" -> "empty!"
      [] OTHER -> c

\* the five ignorePatterns, each as the set of folded texts it matches
IgnorePatterns ==
    << {"intentionally ignored", "intentionally ignore"},
       {"deliberately ignored", "deliberately ignore"},
       {"ignore error"},
       {"no-op"},
       {"noop"} >>

\* pattern.test(comment.value): some part of the value matches the pattern
PatternTest(k, value) ==
    \E i \in 1..Len(value) : Lower(value[i]) \in IgnorePatterns[k]

\* the text of the fix: fixer.insertTextAfter(catchKeyword, ' // intentionally ignored')
InsertedText == <<" ", "//", " ", "intentionally ignored">>

ParamNames == {"e", "err"}
\* a destructuring pattern as the catch parameter
PatternSym == "{message}"
\* console.log('x');   handle(e);   obj.e = 1;   const e = 0;
StmtSyms == {"log;", "use;", "prop;", "shadow;"}

NoPos == 0 - 1

RECURSIVE FindSym(_, _, _)
\* the least index >= i of text holding sym, or Len(text) + 1
FindSym(txt, i, sym) ==
    IF i > Len(txt) THEN Len(txt) + 1
    ELSE IF txt[i] = sym THEN i
    ELSE FindSym(txt, i + 1, sym)

RECURSIVE Lex(_, _, _, _)
\* the parser's scanner: tokens and comments of a text, with their ranges.
\* A line comment runs to the end of the line, a block comment to its
\* terminator; blanks and line breaks separate tokens.
Lex(txt, i, toks, cmts) ==
    IF i > Len(txt) THEN [ok |-> TRUE, tokens |-> toks, comments |-> cmts]
    ELSE IF txt[i] \in {" ", "\n"} THEN Lex(txt, i + 1, toks, cmts)
    ELSE IF txt[i] = "//"
         THEN LET j == FindSym(txt, i + 1, "\n")
              IN  Lex(txt, j, toks,
                      Append(cmts, [value |-> SubSeq(txt, i + 1, j - 1),
                                    start |-> i - 1, end |-> j - 1]))
    ELSE IF txt[i] = "/*"
         THEN LET j == FindSym(txt, i + 1, "*/")
              IN  IF j > Len(txt)
                  THEN [ok |-> FALSE, tokens |-> toks, comments |-> cmts]
                  ELSE Lex(txt, j + 1, toks,
                           Append(cmts, [value |-> SubSeq(txt, i + 1, j - 1),
                                         start |-> i - 1, end |-> j]))
    ELSE Lex(txt, i + 1, Append(toks, [sym |-> txt[i], start |-> i - 1, end |-> i]), cmts)

SymAt(toks, k) == IF k >= 1 /\ k <= Len(toks) THEN toks[k].sym ELSE "<eof>"

NoParam == [type |-> "none", name |-> "", start |-> NoPos, end |-> NoPos]

\* the parser, for a file that is one try statement:
\*   try { } catch [ ( param ) ] { statement* }
\* The result is the CatchClause node: its range, its parameter, the
\* statements of its body block and its first token; ok is FALSE on a syntax
\* error.
Parse(txt) ==
    LET lx == Lex(txt, 1, <<>>, <<>>)
        t == lx.tokens
        hasParam == SymAt(t, 5) = "("
        open == IF hasParam THEN 8 ELSE 5
        wellFormed ==
            /\ lx.ok
            /\ SymAt(t, 1) = "try" /\ SymAt(t, 2) = "{" /\ SymAt(t, 3) = "}"
            /\ SymAt(t, 4) = "catch"
            /\ hasParam => (SymAt(t, 6) \in ParamNames \cup {PatternSym} /\ SymAt(t, 7) = ")")
            /\ SymAt(t, open) = "{"
            /\ Len(t) > open
            /\ SymAt(t, Len(t)) = "}"
            /\ \A k \in (open + 1)..(Len(t) - 1) : t[k].sym \in StmtSyms
    IN  IF ~wellFormed
        THEN [ok |-> FALSE, comments |-> <<>>, start |-> NoPos, end |-> NoPos,
              firstToken |-> [sym |-> "<eof>", start |-> NoPos, end |-> NoPos],
              param |-> NoParam, bodyType |-> "", body |-> <<>>]
        ELSE [ok |-> TRUE,
              bodyType |-> "BlockStatement",
              comments |-> lx.comments,
              start |-> t[4].start,
              end |-> t[Len(t)].end,
              firstToken |-> t[4],
              param |-> IF ~hasParam THEN NoParam
                        ELSE [type |-> IF t[6].sym = PatternSym THEN "ObjectPattern"
                                       ELSE "Identifier",
                              name |-> IF t[6].sym = PatternSym THEN "" ELSE t[6].sym,
                              start |-> t[6].start, end |-> t[6].end],
              body |-> [k \in 1..(Len(t) - 1 - open) |-> t[open + k].sym]]

(***************************************************************************)
(* The syntax tree of a catch body.  Node 2 is the body block; the nodes   *)
(* from 10 on are the trees of the three statements.                       *)
(***************************************************************************)
ClauseId == 1
BlockId == 2

F(key, val) == [key |-> key, val |-> val]

\* a node object: its type, its name (identifiers only) and its own keys in
\* order: type, the child-holding fields, range, loc, parent
Nd(type, name, parent, children) ==
    [type |-> type, name |-> name,
     fields |-> <<F("type", ScalarValue)>> \o children
                \o <<F("range", ArrayValue(<<ScalarValue, ScalarValue>>)),
                     F("loc", PlainObject),
                     F("parent", NodeValue(parent))>>]

StmtRoot(sym) ==
    CASE sym = "log;" -> 10
      [] sym = "use;" -> 20
      [] sym = "prop;" -> 30
      [] sym = "shadow;" -> 40

StmtIds ==
    {10, 11, 12, 13, 14, 15, 20, 21, 22, 23, 30, 31, 32, 33, 34, 35, 40, 41, 42, 43}

StmtLib ==
    [id \in StmtIds |->
        CASE id = 10 -> Nd("ExpressionStatement", "", BlockId, <<F("expression", NodeValue(11))>>)
          [] id = 11 -> Nd("CallExpression", "", 10,
                           <<F("callee", NodeValue(12)),
                             F("arguments", ArrayValue(<<NodeValue(15)>>)),
                             F("optional", ScalarValue)>>)
          [] id = 12 -> Nd("MemberExpression", "", 11,
                           <<F("object", NodeValue(13)), F("property", NodeValue(14)),
                             F("computed", ScalarValue)>>)
          [] id = 13 -> Nd("Identifier", "console", 12, <<F("name", ScalarValue)>>)
          [] id = 14 -> Nd("Identifier", "log", 12, <<F("name", ScalarValue)>>)
          [] id = 15 -> Nd("Literal", "", 11, <<F("value", ScalarValue)>>)
          [] id = 20 -> Nd("ExpressionStatement", "", BlockId, <<F("expression", NodeValue(21))>>)
          [] id = 21 -> Nd("CallExpression", "", 20,
                           <<F("callee", NodeValue(22)),
                             F("arguments", ArrayValue(<<NodeValue(23)>>)),
                             F("optional", ScalarValue)>>)
          [] id = 22 -> Nd("Identifier", "handle", 21, <<F("name", ScalarValue)>>)
          [] id = 23 -> Nd("Identifier", "e", 21, <<F("name", ScalarValue)>>)
          [] id = 30 -> Nd("ExpressionStatement", "", BlockId, <<F("expression", NodeValue(31))>>)
          [] id = 31 -> Nd("AssignmentExpression", "", 30,
                           <<F("operator", ScalarValue), F("left", NodeValue(32)),
                             F("right", NodeValue(35))>>)
          [] id = 32 -> Nd("MemberExpression", "", 31,
                           <<F("object", NodeValue(33)), F("property", NodeValue(34)),
                             F("computed", ScalarValue)>>)
          [] id = 33 -> Nd("Identifier", "obj", 32, <<F("name", ScalarValue)>>)
          [] id = 34 -> Nd("Identifier", "e", 32, <<F("name", ScalarValue)>>)
          [] id = 35 -> Nd("Literal", "", 31, <<F("value", ScalarValue)>>)
          [] id = 40 -> Nd("VariableDeclaration", "", BlockId,
                           <<F("declarations", ArrayValue(<<NodeValue(41)>>)),
                             F("kind", ScalarValue)>>)
          [] id = 41 -> Nd("VariableDeclarator", "", 40,
                           <<F("id", NodeValue(42)), F("init", NodeValue(43))>>)
          [] id = 42 -> Nd("Identifier", "e", 41, <<F("name", ScalarValue)>>)
          [] id = 43 -> Nd("Literal", "", 41, <<F("value", ScalarValue)>>)]

\* the node object with the given id, in the tree of the body `stmts`
AstNode(stmts, id) ==
    IF id = BlockId
    THEN Nd("BlockStatement", "", ClauseId,
            <<F("body", ArrayValue([k \in 1..Len(stmts) |-> NodeValue(StmtRoot(stmts[k]))]))>>)
    ELSE StmtLib[id]

\* mutant of UsageSkippedKey: the declared name and the property name of a
\* member access are not looked at either
UsageSkippedKey_Bindings(key) == key \in {"parent", "range", "loc", "id", "property"}

\* mutant of checkIfParamUsed: any identifier counts as a use of the parameter
checkIfParamUsed_AnyIdentifier(stmts, paramName) ==
    \E id \in StmtIds \cup {BlockId} : AstNode(stmts, id).type = "Identifier"

\* `if (key === 'parent' || key === 'range' || key === 'loc') continue;`
UsageSkippedKey(key) == key \in {"parent", "range", "loc"}

RECURSIVE UsageTraverse(_, _, _)
\* checkIfParamUsed.traverse(node): TRUE when the walk from node sets isUsed
UsageTraverse(stmts, id, paramName) ==
    LET node == AstNode(stmts, id)
    IN  IF node.type = "Identifier" /\ node.name = paramName THEN TRUE
        ELSE \E i \in 1..Len(node.fields) :
               LET key == node.fields[i].key
                   value == node.fields[i].val
               IN  /\ ~UsageSkippedKey(key)
                   /\ IsObject(value)
                   /\ IF value.kind = "array"
                      THEN \E j \in 1..Len(value.items) :
                             /\ IsObject(value.items[j]) /\ HasType(value.items[j])
                             /\ UsageTraverse(stmts, value.items[j].id, paramName)
                      ELSE HasType(value) /\ UsageTraverse(stmts, value.id, paramName)

\* checkIfParamUsed(block, paramName)
checkIfParamUsed(stmts, paramName) == UsageTraverse(stmts, BlockId, paramName)

(***************************************************************************)
(* checkIfParamUsed on the node graphs of the walker.  `named` is the set  *)
(* of the nodes that are identifiers spelled like the parameter.  The      *)
(* answer is "true" or "false", or "RangeError" when the recursion never   *)
(* ends and exhausts the stack of the runtime.                             *)
(***************************************************************************)
RECURSIVE UsageKeyCalls(_, _, _)
\* the `for (const key in node)` loop of checkIfParamUsed.traverse: the
\* nodes traverse() is called with, in call order
UsageKeyCalls(h, n, i) ==
    IF i > Len(Keys) THEN <<>>
    ELSE LET key == Keys[i]
             value == FieldValue(h, n, key)
             rest == UsageKeyCalls(h, n, i + 1)
         IN  IF UsageSkippedKey(key) THEN rest
             ELSE IF ~IsObject(value) THEN rest
             ELSE IF value.kind = "array" THEN ArrayCalls(value.items, 1) \o rest
             ELSE IF HasType(value) THEN <<value.id>> \o rest
             ELSE rest

RECURSIVE UsageTraverseOn(_, _, _, _)
RECURSIVE UsageLoopOn(_, _, _, _, _)
\* checkIfParamUsed.traverse(node) at the given depth of recursion.  There
\* is no visited set: a descent deeper than the number of node objects has
\* met some node twice, repeats from there for ever, and ends in the
\* runtime's RangeError.
UsageTraverseOn(h, named, n, depth) ==
    IF depth > MaxNodes THEN "RangeError"
    ELSE IF n \in named THEN "true"
    ELSE UsageLoopOn(h, named, UsageKeyCalls(h, n, 1), 1, depth)

\* the calls of one loop, in order: once isUsed is set every further call
\* returns at once, and an error leaves the loop
UsageLoopOn(h, named, calls, j, depth) ==
    IF j > Len(calls) THEN "false"
    ELSE LET outcome == UsageTraverseOn(h, named, calls[j], depth + 1)
         IN  IF outcome = "false" THEN UsageLoopOn(h, named, calls, j + 1, depth)
             ELSE outcome

\* checkIfParamUsed(block, paramName) with block the root of the graph
checkIfParamUsedOn(h, named) == UsageTraverseOn(h, named, Root, 1)

(***************************************************************************)
(* The helpers and the CatchClause handler of no-empty-catch               *)
(***************************************************************************)
\* isEffectivelyEmpty(catchClause)
isEffectivelyEmpty(c) ==
    IF c.bodyType # "BlockStatement" THEN TRUE ELSE Len(c.body) = 0

\* the filter of hasIntentionalIgnoreComment: the comment lies in the clause
CommentInClause(c, comment) == comment.start >= c.start /\ comment.end <= c.end

\* hasIntentionalIgnoreComment(catchClause, sourceCode)
hasIntentionalIgnoreComment(c) ==
    IF c.bodyType # "BlockStatement" THEN FALSE
    ELSE \E i \in 1..Len(c.comments) :
           /\ CommentInClause(c, c.comments[i])
           /\ \E k \in 1..Len(IgnorePatterns) : PatternTest(k, c.comments[i].value)

NoFix == [at |-> NoPos, text |-> <<>>]

\* mutant of EmptyCatchFix: the comment is inserted before the catch keyword
EmptyCatchFix_BeforeToken(c) == [at |-> c.firstToken.start, text |-> InsertedText]

\* the fix of the emptyCatch report: insert after sourceCode.getFirstToken(node)
EmptyCatchFix(c) ==
    IF c.firstToken.sym # "<eof>"
    THEN [at |-> c.firstToken.end, text |-> InsertedText]
    ELSE NoFix

\* the reports of one call of the CatchClause handler, in order
CatchClauseReports(c) ==
    LET isEmpty == isEffectivelyEmpty(c)
        isIntentionallyIgnored == hasIntentionalIgnoreComment(c)
        emptyCatch ==
            IF isEmpty /\ ~isIntentionallyIgnored
            THEN <<[messageId |-> "emptyCatch", start |-> c.start, end |-> c.end,
                    paramName |-> "", fix |-> EmptyCatchFix(c)]>>
            ELSE <<>>
        unusedParam ==
            IF /\ ~isEmpty /\ ~isIntentionallyIgnored /\ c.param.type # "none"
               /\ c.param.type = "Identifier"
               /\ ~checkIfParamUsed(c.body, c.param.name)
            THEN <<[messageId |-> "unusedParam", start |-> c.param.start,
                    end |-> c.param.end, paramName |-> c.param.name, fix |-> NoFix]>>
            ELSE <<>>
    IN  emptyCatch \o unusedParam

(***************************************************************************)
(* Linting a file and applying the fix, as the host does                   *)
(***************************************************************************)
\* greatest number of fixes the host applies to one file
MaxFixes == 2

RECURSIVE Flatten(_)
Flatten(ss) == IF ss = <<>> THEN <<>> ELSE ss[1] \o Flatten(Tail(ss))

\* the files linted: one try statement with one catch clause,
\*   [// c] try {} catch <gap> [(param)] { <items> } [// c]
\* where <gap> is a blank, a line break or a block comment, <items> are
\* statements, line breaks and line comments, and the comments before and
\* after the statement state the intent to ignore
CatchTexts ==
    LET LineComment(c) == <<"//", " ", c, "\n">>
        BlockComment(c) == <<"/*", c, "*/">>
        Gaps == {<<" ">>, <<"\n">>} \cup {BlockComment(c) : c \in CommentTexts}
        ParamTexts == {<<>>} \cup {<<"(", p, ")", " ">> : p \in ParamNames \cup {PatternSym}}
        BodyItems ==
            {<<st>> : st \in StmtSyms} \cup {<<"\n">>}
            \cup {LineComment(c) : c \in {"intentionally ignored", "Empty!"}}
        Outside == LineComment("intentionally ignored")
    IN  { pre \o <<"try", "{", "}", "catch">> \o gap \o param \o <<"{">>
              \o Flatten(items) \o <<"}">> \o post :
          pre \in {<<>>, Outside}, gap \in Gaps, param \in ParamTexts,
          items \in SeqsUpTo(BodyItems, MaxBody),
          post \in {<<>>, <<"\n">> \o Outside} }

CatchInit ==
    /\ WalkIdle /\ CompIdle /\ SvcIdle /\ FixIdle /\ HostIdle /\ StyleIdle
    /\ orig \in CatchTexts
    /\ text = orig
    /\ diags = <<>>
    /\ fixes = 0
    /\ cpc = "source"

\* one lint pass over a text that parses: the CatchClause handler runs once
Lint ==
    /\ cpc \in {"source", "fixed"}
    /\ Parse(text).ok
    /\ diags' = CatchClauseReports(Parse(text))
    /\ cpc' = "linted"
    /\ UNCHANGED <<orig, text, fixes, notCatch>>

\* the text no longer parses: the host reports a syntax error instead
SyntaxError ==
    /\ cpc \in {"source", "fixed"}
    /\ ~Parse(text).ok
    /\ diags' = <<>>
    /\ cpc' = "syntaxError"
    /\ UNCHANGED <<orig, text, fixes, notCatch>>

\* the text with `ins` inserted at offset `at`
InsertAt(txt, at, ins) == SubSeq(txt, 1, at) \o ins \o SubSeq(txt, at + 1, Len(txt))

\* the host applies the fix of a reported diagnostic and will lint again
ApplyFix ==
    /\ cpc = "linted"
    /\ fixes < MaxFixes
    /\ \E i \in 1..Len(diags) :
         /\ diags[i].fix # NoFix
         /\ text' = InsertAt(text, diags[i].fix.at, diags[i].fix.text)
    /\ fixes' = fixes + 1
    /\ cpc' = "fixed"
    /\ UNCHANGED <<orig, diags, notCatch>>

CatchNext == Lint \/ SyntaxError \/ ApplyFix

CatchSpec == CatchInit /\ [][CatchNext]_vars

(***************************************************************************)
(* Properties of no-empty-catch, stated on the source text itself          *)
(***************************************************************************)
\* the comment texts that state the intent to ignore, whatever their case
IgnoreTexts ==
    {"intentionally ignored", "Intentionally Ignore", "deliberately ignored",
     "ignore error", "NO-OP", "noop"}

\* index of the catch keyword of the text
CatchIndex(txt) == FindSym(txt, 1, "catch")

\* index of the brace that closes the catch body: the last brace of the text
ClosingIndex(txt) ==
    CHOOSE i \in 1..Len(txt) : txt[i] = "}" /\ \A j \in (i + 1)..Len(txt) : txt[j] # "}"

\* the body block of the clause holds at least one statement
BodyHasStatement(txt) == \E i \in 1..Len(txt) : txt[i] \in StmtSyms

\* an ignore-intent comment stands inside the clause
IgnoreInside(txt) ==
    \E i \in (CatchIndex(txt) + 1)..(ClosingIndex(txt) - 1) : txt[i] \in IgnoreTexts

\* an ignore-intent comment stands before or after the clause
IgnoreOutside(txt) ==
    \E i \in 1..Len(txt) :
        /\ txt[i] \in IgnoreTexts
        /\ i < CatchIndex(txt) \/ i > ClosingIndex(txt)

\* index of the identifier parameter of the clause, 0 when it has none
ParamIndex(txt) ==
    IF \E i \in 2..Len(txt) : txt[i] \in ParamNames /\ txt[i - 1] = "("
    THEN CHOOSE i \in 2..Len(txt) : txt[i] \in ParamNames /\ txt[i - 1] = "("
    ELSE 0

\* the identifiers a statement is spelled with
Mentions(sym) ==
    CASE sym = "log;" -> {"console", "log"}
      [] sym = "use;" -> {"handle", "e"}
      [] sym = "prop;" -> {"obj", "e"}
      [] sym = "shadow;" -> {"e"}

\* some statement of the body spells the name
NameOccurs(txt, name) ==
    \E i \in 1..Len(txt) : txt[i] \in StmtSyms /\ name \in Mentions(txt[i])

\* C4: a catch clause whose body block has zero statements and that contains
\* no ignore-intent comment gets exactly one diagnostic, emptyCatch, on the
\* clause, with a fix that inserts an ignore-intent line comment right after
\* the catch keyword.
C4_EmptyCatchReported ==
    (cpc = "linted" /\ ~BodyHasStatement(text) /\ ~IgnoreInside(text)) =>
        /\ Len(diags) = 1
        /\ diags[1].messageId = "emptyCatch"
        /\ diags[1].start = CatchIndex(text) - 1
        /\ diags[1].end = ClosingIndex(text)
        /\ diags[1].fix.at = CatchIndex(text)
        /\ \E k \in 1..Len(diags[1].fix.text) :
             /\ diags[1].fix.text[k] = "//"
             /\ \A j \in 1..(k - 1) : diags[1].fix.text[j] = " "
             /\ \E j \in (k + 1)..Len(diags[1].fix.text) : diags[1].fix.text[j] \in IgnoreTexts

\* an empty clause holding only the comment `// Empty!`, reported with its fix
C4_Witness ==
    /\ cpc = "linted" /\ fixes = 0
    /\ \E i \in 1..Len(text) : text[i] = "Empty!"
    /\ ParamIndex(text) # 0
    /\ Len(diags) = 1 /\ diags[1].messageId = "emptyCatch" /\ diags[1].fix # NoFix

\* try {} catch (e) {}
SingleLineEmptyCatch == <<"try", "{", "}", "catch", " ", "(", "e", ")", " ", "{", "}">>

\* C5: applying the emptyCatch fix once to `catch (e) {}` yields a clause
\* that is still valid and holds an ignore-intent comment, and linting the
\* fixed text again yields zero diagnostics.
C5_FixIdempotent ==
    (orig = SingleLineEmptyCatch /\ fixes >= 1) =>
        /\ Parse(text).ok
        /\ IgnoreInside(text)
        /\ cpc # "syntaxError"
        /\ cpc = "linted" => diags = <<>>

\* C6: a clause with a non-empty body, no ignore-intent comment and an
\* identifier parameter gets exactly one diagnostic when no identifier of the
\* body is spelled like the parameter: unusedParam, on the parameter, naming
\* it, without a fix (and so no emptyCatch); it gets none when the name
\* occurs in the body.
C6_UnusedParamOnly ==
    (/\ cpc = "linted" /\ BodyHasStatement(text) /\ ~IgnoreInside(text)
     /\ ParamIndex(text) # 0) =>
        IF NameOccurs(text, text[ParamIndex(text)])
        THEN diags = <<>>
        ELSE /\ Len(diags) = 1
             /\ diags[1].messageId = "unusedParam"
             /\ diags[1].start = ParamIndex(text) - 1
             /\ diags[1].end = ParamIndex(text)
             /\ diags[1].paramName = text[ParamIndex(text)]
             /\ diags[1].fix = NoFix

\* catch (e) { console.log('x'); } reported as unusedParam only
C6_Witness ==
    /\ cpc = "linted"
    /\ ParamIndex(text) # 0 /\ text[ParamIndex(text)] = "e"
    /\ \E i \in 1..Len(text) : text[i] = "log;"
    /\ ~NameOccurs(text, "e")
    /\ Len(diags) = 1 /\ diags[1].messageId = "unusedParam"

\* C7: a clause yields no diagnostic at all whenever a comment inside its
\* range matches an ignore phrasing, in any letter case; a matching comment
\* outside the clause suppresses nothing.
C7_IgnoreCommentSuppresses ==
    cpc = "linted" =>
        /\ IgnoreInside(text) => diags = <<>>
        /\ (~IgnoreInside(text) /\ IgnoreOutside(text)) =>
             /\ ~BodyHasStatement(text) => Len(diags) = 1
             /\ (/\ BodyHasStatement(text) /\ ParamIndex(text) # 0
                 /\ ~NameOccurs(text, text[ParamIndex(text)])) => Len(diags) = 1

\* an empty clause with a parameter, silenced by the upper-case comment
\* /*NO-OP*/ between the catch keyword and the parameter
C7_Witness ==
    /\ cpc = "linted" /\ fixes = 0
    /\ ~BodyHasStatement(text) /\ ParamIndex(text) # 0
    /\ \E i \in (CatchIndex(text) + 1)..(ParamIndex(text) - 1) : text[i] = "NO-OP"
    /\ \A i \in 1..Len(text) : text[i] \in IgnoreTexts => text[i] = "NO-OP"
    /\ diags = <<>>

\* the statements of the body, in order, read off the text
BodyStatements(txt) == SelectSeq(txt, LAMBDA sym : sym \in StmtSyms)

\* C23: checkIfParamUsed(block, name) answers true exactly when some
\* identifier of the block is spelled `name`, whatever its role: the name of
\* a property (`obj.e = 1`) and the name bound by an inner declaration
\* (`const e = 0`) count as uses, and so a clause whose body only shadows the
\* parameter or sets a property of that name gets no unusedParam diagnostic.
C23_LexicalOccurrence ==
    (cpc = "linted" /\ BodyHasStatement(text)) =>
        /\ \A name \in ParamNames \cup {"obj", "handle", "log"} :
             checkIfParamUsed(BodyStatements(text), name) <=> NameOccurs(text, name)
        /\ (/\ ParamIndex(text) # 0 /\ text[ParamIndex(text)] = "e"
            /\ \E i \in 1..Len(text) : text[i] \in {"shadow;", "prop;"}) =>
             \A i \in 1..Len(diags) : diags[i].messageId # "unusedParam"

\* catch (e) { const e = 0; } with nothing else in the body: not reported
C23_Witness ==
    /\ cpc = "linted" /\ fixes = 0
    /\ ParamIndex(text) # 0 /\ text[ParamIndex(text)] = "e"
    /\ BodyStatements(text) = <<"shadow;">>
    /\ ~IgnoreInside(text)
    /\ diags = <<>>

\* C30: on every node graph, shared nodes and cycles of non-parent fields
\* included, checkIfParamUsed returns, and returns what a finished
\* traverseNode walk gives: true iff a visited node is an identifier spelled
\* like the parameter.
C30_SameAsWalker ==
    wpc = "done" =>
        \A named \in SUBSET NodeIds :
            checkIfParamUsedOn(heap, named) =
                IF \E i \in 1..Len(visits) : visits[i] \in named THEN "true" ELSE "false"

(***************************************************************************)
(* one-component-per-file.  The file is the sequence of the nodes the host *)
(* dispatches to the rule's handlers, in traversal order; a node is named  *)
(* by its position in the file.                                            *)
(***************************************************************************)
\* greatest number of dispatched nodes in a file
MaxFileNodes == 4

NoFn == [type |-> "none", expression |-> FALSE, bodyType |-> "", stmts |-> <<>>]
NoExpr == [type |-> "none", name |-> "", object |-> "", objectName |-> "",
           property |-> "", propertyName |-> ""]

\* a function node: its type, the arrow `expression` flag, the type of its
\* body and, for a block body, its statements as [type, argument type]
Fn(type, expression, bodyType, stmts) ==
    [type |-> type, expression |-> expression, bodyType |-> bodyType, stmts |-> stmts]

Ident(name) == [NoExpr EXCEPT !.type = "Identifier", !.name = name]

\* object.property (computed = FALSE) or object['property']
Member(objectName, propertyType, propertyName) ==
    [NoExpr EXCEPT !.type = "MemberExpression", !.object = "Identifier",
                   !.objectName = objectName, !.property = propertyType,
                   !.propertyName = propertyName]

LiteralExpr == [NoExpr EXCEPT !.type = "Literal"]

\* a dispatched node: id is node.id (NoExpr when null), init / fn the
\* function of a declarator / declaration, superClass, left and right the
\* operands of an assignment
FileNode(type, id, fn, superClass, left, right) ==
    [type |-> type, id |-> id, fn |-> fn, superClass |-> superClass,
     left |-> left, right |-> right]

\* the nodes a file is made of:
\*   FnCard           function Card() { return <div/>; }
\*   FnCardHeader     function CardHeader() { log(); return <></>; }
\*   FnPlain          function CardFooter() { return 'x'; }
\*   FnAnonymous      export default function () { return <div/>; }
\*   VarCardBody      const CardBody = () => <div/>
\*   VarLiteral       const size = 1
\*   ClassCard        class Card extends React.Component {}
\*   ClassCardHeader  class CardHeader extends PureComponent {}
\*   ClassPlain       class Store extends Base {}
\*   AssignHeader     Card.Header = CardHeader
\*   AssignComputed   Card['Header'] = CardHeader
\*   AssignLiteral    Card.displayName = 'Card'
Lib ==
    LET ReturnJSX == <<[type |-> "ReturnStatement", argument |-> "JSXElement"]>>
        ReturnFragmentAfterCall ==
            <<[type |-> "ExpressionStatement", argument |-> "null"],
              [type |-> "ReturnStatement", argument |-> "JSXFragment"]>>
        ReturnLiteral == <<[type |-> "ReturnStatement", argument |-> "Literal"]>>
        Decl(id, stmts) ==
            FileNode("FunctionDeclaration", id,
                     Fn("FunctionDeclaration", FALSE, "BlockStatement", stmts),
                     NoExpr, NoExpr, NoExpr)
        Class(name, superClass) ==
            FileNode("ClassDeclaration", Ident(name), NoFn, superClass, NoExpr, NoExpr)
        Assign(left, right) ==
            FileNode("AssignmentExpression", NoExpr, NoFn, NoExpr, left, right)
    IN  [FnCard |-> Decl(Ident("Card"), ReturnJSX),
         FnCardHeader |-> Decl(Ident("CardHeader"), ReturnFragmentAfterCall),
         FnPlain |-> Decl(Ident("CardFooter"), ReturnLiteral),
         FnAnonymous |-> Decl(NoExpr, ReturnJSX),
         VarCardBody |->
            FileNode("VariableDeclarator", Ident("CardBody"),
                     Fn("ArrowFunctionExpression", TRUE, "JSXElement", <<>>),
                     NoExpr, NoExpr, NoExpr),
         VarLiteral |->
            FileNode("VariableDeclarator", Ident("size"), NoFn, NoExpr, NoExpr, NoExpr),
         ClassCard |-> Class("Card", Member("React", "Identifier", "Component")),
         ClassCardHeader |-> Class("CardHeader", Ident("PureComponent")),
         ClassPlain |-> Class("Store", Ident("Base")),
         AssignHeader |-> Assign(Member("Card", "Identifier", "Header"), Ident("CardHeader")),
         AssignComputed |-> Assign(Member("Card", "Literal", "Header"), Ident("CardHeader")),
         AssignLiteral |-> Assign(Member("Card", "Identifier", "displayName"), LiteralExpr)]

FileNodes == {Lib[k] : k \in DOMAIN Lib}

\* returnsJSX.isJSXNode(n)
isJSXNode(type) == type \in {"JSXElement", "JSXFragment"}

\* returnsJSX(node)
returnsJSX(fn) ==
    IF /\ fn.type = "ArrowFunctionExpression" /\ fn.expression
       /\ fn.bodyType # "BlockStatement"
    THEN isJSXNode(fn.bodyType)
    ELSE IF fn.bodyType # "" /\ fn.bodyType = "BlockStatement"
    THEN \E i \in 1..Len(fn.stmts) :
           /\ fn.stmts[i].type = "ReturnStatement"
           /\ fn.stmts[i].argument # "null"
           /\ isJSXNode(fn.stmts[i].argument)
    ELSE FALSE

\* isReactComponent(node)
isReactComponent(node) ==
    IF node.type = "FunctionDeclaration" THEN returnsJSX(node.fn)
    ELSE IF /\ node.type = "VariableDeclarator" /\ node.fn.type # "none"
            /\ node.fn.type \in {"ArrowFunctionExpression", "FunctionExpression"}
    THEN returnsJSX(node.fn)
    ELSE IF node.type = "ClassDeclaration" /\ node.superClass.type # "none"
    THEN \/ /\ node.superClass.type = "MemberExpression"
            /\ node.superClass.object = "Identifier"
            /\ node.superClass.objectName = "React"
            /\ node.superClass.property = "Identifier"
            /\ node.superClass.propertyName \in {"Component", "PureComponent"}
         \/ /\ node.superClass.type = "Identifier"
            /\ node.superClass.name \in {"Component", "PureComponent"}
    ELSE FALSE

\* `node.id?.name || 'anonymous'`, and for a declarator
\* `node.id.type === Identifier ? node.id.name : 'anonymous'`
ComponentName(node) ==
    IF node.id.type = "Identifier" /\ node.id.name # "" THEN node.id.name ELSE "anonymous"

\* the condition of the AssignmentExpression handler
IsCompoundAssignment(node) ==
    /\ node.left.type = "MemberExpression"
    /\ node.left.object = "Identifier"
    /\ node.left.property = "Identifier"
    /\ node.right.type = "Identifier"

\* mutant of IsCompoundChild: the compound-children set is never consulted
IsCompoundChild_Never(children, name) == FALSE

\* `compoundChildren.has(component.name)`
IsCompoundChild(children, name) == name \in children

RECURSIVE Join(_)
\* names.join(', '), as the sequence of its pieces
Join(names) ==
    IF names = <<>> THEN <<>>
    ELSE IF Len(names) = 1 THEN <<names[1]>>
    ELSE <<names[1], ", ">> \o Join(Tail(names))

\* mutant of ReportAnchor: the report is anchored on the first definition
ReportAnchor_First(nonCompound) == nonCompound[1].node

\* `node: nonCompoundComponents[1].node`
ReportAnchor(nonCompound) == nonCompound[2].node

Files == SeqsUpTo(FileNodes, MaxFileNodes)

CompInit ==
    /\ WalkIdle /\ CatchIdle /\ SvcIdle /\ FixIdle /\ HostIdle /\ StyleIdle
    /\ file \in Files
    /\ pos = 0
    /\ components = <<>>
    /\ compoundChildren = {}
    /\ reports = <<>>
    /\ opc = "visiting"

\* the host dispatches the next node of the file to the handler of its type
Dispatch(type) ==
    /\ opc = "visiting"
    /\ pos < Len(file)
    /\ file[pos + 1].type = type
    /\ pos' = pos + 1

\* components.push({name, node, isCompoundChild: false}) if a component
Collect(node, at) ==
    components' =
        IF isReactComponent(node)
        THEN Append(components, [name |-> ComponentName(node), node |-> at,
                                 isCompoundChild |-> FALSE])
        ELSE components

\* the body of the AssignmentExpression handler raises a TypeError: it
\* reads `.type` of a missing left operand, object, property or right operand
AssignmentRaises(node) ==
    \/ node.left.type = "none"
    \/ /\ node.left.type = "MemberExpression"
       /\ \/ node.left.object = ""
          \/ /\ node.left.object = "Identifier"
             /\ \/ node.left.property = ""
                \/ node.left.property = "Identifier" /\ node.right.type = "none"

\* the body of the VariableDeclarator handler raises a TypeError: it reads
\* `node.id.type` of a component declarator without id
DeclaratorRaises(node) == isReactComponent(node) /\ node.id.type = "none"

\* mutant of TryCatch: the error leaves the handler and ends the traversal
TryCatch_Propagates(raised) == IF raised THEN "crashed" ELSE "visiting"

\* `try { ... } catch (error) { console.error(...) }` around the body of a
\* handler: the handler returns to the host whether its body raised or not
TryCatch(raised) == "visiting"

\* mutant of AssignmentExpression: the assignment only marks a definition
\* that has been collected before it
AssignmentExpression_MarksCollected ==
    /\ Dispatch("AssignmentExpression")
    /\ compoundChildren' =
         IF /\ ~AssignmentRaises(file[pos + 1])
            /\ IsCompoundAssignment(file[pos + 1])
            /\ \E i \in 1..Len(components) : components[i].name = file[pos + 1].right.name
         THEN compoundChildren \cup {file[pos + 1].right.name}
         ELSE compoundChildren
    /\ opc' = TryCatch(AssignmentRaises(file[pos + 1]))
    /\ UNCHANGED <<file, components, reports, notComp>>

AssignmentExpression ==
    /\ Dispatch("AssignmentExpression")
    /\ compoundChildren' =
         IF ~AssignmentRaises(file[pos + 1]) /\ IsCompoundAssignment(file[pos + 1])
         THEN compoundChildren \cup {file[pos + 1].right.name}
         ELSE compoundChildren
    /\ opc' = TryCatch(AssignmentRaises(file[pos + 1]))
    /\ UNCHANGED <<file, components, reports, notComp>>

FunctionDeclaration ==
    /\ Dispatch("FunctionDeclaration")
    /\ Collect(file[pos + 1], pos + 1)
    /\ opc' = TryCatch(FALSE)
    /\ UNCHANGED <<file, compoundChildren, reports, notComp>>

VariableDeclarator ==
    /\ Dispatch("VariableDeclarator")
    /\ IF DeclaratorRaises(file[pos + 1])
       THEN components' = components
       ELSE Collect(file[pos + 1], pos + 1)
    /\ opc' = TryCatch(DeclaratorRaises(file[pos + 1]))
    /\ UNCHANGED <<file, compoundChildren, reports, notComp>>

ClassDeclaration ==
    /\ Dispatch("ClassDeclaration")
    /\ Collect(file[pos + 1], pos + 1)
    /\ opc' = TryCatch(FALSE)
    /\ UNCHANGED <<file, compoundChildren, reports, notComp>>

\* 'Program:exit': mark the compound children, count the others, report
ProgramExit ==
    /\ opc = "visiting"
    /\ pos = Len(file)
    /\ LET marked == [i \in 1..Len(components) |->
                        IF IsCompoundChild(compoundChildren, components[i].name)
                        THEN [components[i] EXCEPT !.isCompoundChild = TRUE]
                        ELSE components[i]]
           nonCompoundComponents == SelectSeq(marked, LAMBDA c : ~c.isCompoundChild)
       IN  /\ components' = marked
           /\ reports' =
                IF Len(nonCompoundComponents) > 1
                THEN Append(reports,
                            [node |-> ReportAnchor(nonCompoundComponents),
                             messageId |-> "multipleComponents",
                             count |-> Len(nonCompoundComponents),
                             componentNames |->
                                Join([i \in 1..Len(nonCompoundComponents) |->
                                        nonCompoundComponents[i].name])])
                ELSE reports
    /\ opc' = "exited"
    /\ UNCHANGED <<file, pos, compoundChildren, notComp>>

CompNext ==
    \/ AssignmentExpression
    \/ FunctionDeclaration
    \/ VariableDeclarator
    \/ ClassDeclaration
    \/ ProgramExit

CompSpec == CompInit /\ [][CompNext]_vars

(***************************************************************************)
(* Properties of one-component-per-file, stated on the file itself         *)
(***************************************************************************)
\* the nodes of the library that define a component, read off their source
ComponentDefinitions ==
    {Lib.FnCard, Lib.FnCardHeader, Lib.FnAnonymous, Lib.VarCardBody, Lib.ClassCard, Lib.ClassCardHeader}

\* the name each of them is collected under
DefinedName(node) ==
    CASE node = Lib.FnCard -> "Card"
      [] node = Lib.FnCardHeader -> "CardHeader"
      [] node = Lib.FnAnonymous -> "anonymous"
      [] node = Lib.VarCardBody -> "CardBody"
      [] node = Lib.ClassCard -> "Card"
      [] node = Lib.ClassCardHeader -> "CardHeader"

\* the names attached to a parent by an assignment `Parent.Prop = Name`
\* anywhere in the file
AttachedNames(f) == {"CardHeader" : i \in {j \in 1..Len(f) : f[j] = Lib.AssignHeader}}

\* the positions of the definitions that count at end-of-file, in file order
Remaining(f) ==
    SelectSeq([i \in 1..Len(f) |-> i],
              LAMBDA i : /\ f[i] \in ComponentDefinitions
                         /\ DefinedName(f[i]) \notin AttachedNames(f))

\* C8: at end-of-file every collected definition whose name is in the
\* compound-children set is left out of the count, and with at most one
\* definition left the detector reports nothing.
C8_CompoundExclusion ==
    opc = "exited" =>
        /\ \A i \in 1..Len(components) :
             components[i].isCompoundChild <=> components[i].name \in AttachedNames(file)
        /\ Len(Remaining(file)) <= 1 => reports = <<>>
        /\ \A k \in 1..Len(reports) : reports[k].count = Len(Remaining(file))

\* Card, CardHeader and Card.Header = CardHeader: nothing reported
C8_Witness ==
    /\ opc = "exited"
    /\ file = <<Lib.FnCard, Lib.FnCardHeader, Lib.AssignHeader>>
    /\ Len(components) = 2
    /\ reports = <<>>

\* C9: with more than one non-compound definition left the detector reports
\* exactly one diagnostic for the file, on the second one in collection
\* order, with their number as count and their names joined by ', ' as
\* componentNames; it never reports more than once, and never before
\* end-of-file.
C9_SingleReport ==
    /\ Len(reports) <= 1
    /\ opc # "exited" => reports = <<>>
    /\ (opc = "exited" /\ Len(Remaining(file)) > 1) =>
         LET left == Remaining(file)
         IN  /\ Len(reports) = 1
             /\ reports[1].messageId = "multipleComponents"
             /\ reports[1].node = left[2]
             /\ reports[1].count = Len(left)
             /\ Len(reports[1].componentNames) = 2 * Len(left) - 1
             /\ \A i \in 1..Len(left) :
                  reports[1].componentNames[2 * i - 1] = DefinedName(file[left[i]])
             /\ \A i \in 1..(Len(left) - 1) : reports[1].componentNames[2 * i] = ", "

\* three definitions of which the first is a compound child: the report is
\* anchored on the third node of the file, the second definition that counts
C9_Witness ==
    /\ opc = "exited"
    /\ Len(file) >= 4
    /\ SubSeq(file, 1, 4) = <<Lib.FnCardHeader, Lib.AssignHeader, Lib.ClassCard, Lib.VarCardBody>>
    /\ Len(reports) = 1
    /\ reports[1].node = 4

\* the names attached by an assignment to a property of an identifier, the
\* property written either way: Card.Header = X or Card['Header'] = X
AttachedByAnyAccess(f) ==
    {"CardHeader" : i \in {j \in 1..Len(f) : f[j] \in {Lib.AssignHeader, Lib.AssignComputed}}}

\* C27: at end-of-file the compound-children set holds exactly the names of
\* the identifiers assigned to a property of another identifier, whether the
\* property is written Card.Header or Card['Header'].
C27_CompoundChildrenComplete ==
    opc = "exited" => compoundChildren = AttachedByAnyAccess(file)

\* the definitions of the file, in file order
Definitions(f) == SelectSeq(f, LAMBDA node : node \in ComponentDefinitions)

\* the number of definitions among the first n nodes of the file
DefinitionsUpTo(f, n) == Len(Definitions(SubSeq(f, 1, n)))

\* C29: nothing is reported before end-of-file, and the outcome at
\* end-of-file is fixed by the definitions in their own order and by the set
\* of names attached by assignments, wherever the assignments stand among
\* the definitions: the report is there iff more than one definition has a
\* name that is not attached, it counts and names those, and it is anchored
\* on the second of them.
C29_OrderIndependent ==
    /\ opc = "visiting" => reports = <<>>
    /\ opc = "exited" =>
         LET defs == Definitions(file)
             kept == SelectSeq([i \in 1..Len(defs) |-> i],
                               LAMBDA i : DefinedName(defs[i]) \notin AttachedNames(file))
         IN  IF Len(kept) <= 1 THEN reports = <<>>
             ELSE /\ Len(reports) = 1
                  /\ reports[1].count = Len(kept)
                  /\ \A i \in 1..Len(kept) :
                       reports[1].componentNames[2 * i - 1] = DefinedName(defs[kept[i]])
                  /\ file[reports[1].node] \in ComponentDefinitions
                  /\ DefinitionsUpTo(file, reports[1].node) = kept[2]

\* the assignment Card.Header = CardHeader handled before both definitions:
\* CardHeader is left out all the same and nothing is reported
C29_Witness ==
    /\ opc = "exited"
    /\ file = <<Lib.AssignHeader, Lib.FnCard, Lib.FnCardHeader>>
    /\ compoundChildren = {"CardHeader"}
    /\ reports = <<>>

(***************************************************************************)
(* no-response-data-return.  A path is a sequence of symbols: separators   *)
(* and pieces of segment names; an identifier name is its sequence of      *)
(* characters.                                                             *)
(***************************************************************************)
\* greatest number of symbols in a file path
MaxPath == 5
\* greatest number of return statements traversed in one file
MaxReturns == 2

PathSyms == {"src", "services", "lib", "my", "/", "\\", "api.ts"}

\* normalizedPath.includes('src/services/')
ServiceMarker == <<"src", "/", "services", "/">>

\* filename.replace(/\\/g, '/')
NormalizePath(path) == [i \in 1..Len(path) |-> IF path[i] = "\\" THEN "/" ELSE path[i]]

\* String.prototype.includes
Includes(str, part) ==
    \E i \in 0..(Len(str) - Len(part)) : SubSeq(str, i + 1, i + Len(part)) = part

\* mutant of matchesServicePath: any services directory counts
matchesServicePath_AnyServices(path) ==
    Includes(NormalizePath(path), <<"services", "/">>)

\* matchesServicePath(filename)
matchesServicePath(path) == Includes(NormalizePath(path), ServiceMarker)

\* String.prototype.toLowerCase, character by character
ToLowerCase(str) ==
    [i \in 1..Len(str) |->
        CASE str[i] = "R" -> "r"
          [] str[i] = "A" -> "a"
          [] OTHER -> str[i]]

NoE == [type |-> "none"]
Id(name) == [type |-> "Identifier", name |-> name]
Mem(object, property) == [type |-> "MemberExpression", object |-> object, property |-> property]
Chain(expression) == [type |-> "ChainExpression", expression |-> expression]
ReturnStatementNode(argument) == [type |-> "ReturnStatement", argument |-> argument]

\* the return statements a file may hold
ReturnStatements ==
    LET data == Id(<<"d", "a", "t", "a">>)
        items == Id(<<"i", "t", "e", "m", "s">>)
        response == Id(<<"r", "e", "s", "p", "o", "n", "s", "e">>)
        res == Id(<<"r", "e", "s">>)
        r == Id(<<"r">>)
        apiResult == Id(<<"a", "p", "i", "R", "e", "s", "u", "l", "t">>)
        user == Id(<<"u", "s", "e", "r">>)
        address == Id(<<"a", "d", "d", "r", "e", "s", "s">>)
    IN  { ReturnStatementNode(NoE),                               \* return;
          ReturnStatementNode(Mem(response, data)),               \* return response.data
          ReturnStatementNode(Chain(Mem(res, data))),             \* return res?.data
          ReturnStatementNode(Mem(r, data)),                      \* return r.data
          ReturnStatementNode(Mem(apiResult, data)),              \* return apiResult.data
          ReturnStatementNode(Mem(Mem(response, data), items)),   \* return response.data.items
          ReturnStatementNode(Mem(Mem(response, items), data)),   \* return response.items.data
          ReturnStatementNode(Mem(user, data)),                   \* return user.data
          ReturnStatementNode(Mem(address, data)),                \* return address.data
          ReturnStatementNode(Mem([type |-> "CallExpression"], data)),  \* return f().data
          ReturnStatementNode(response),                          \* return response
          ReturnStatementNode([type |-> "ObjectExpression"]),     \* return {id: response.data.id}
          ReturnStatementNode([type |-> "CallExpression"]),       \* return map(response.data)
          ReturnStatementNode(Chain([type |-> "CallExpression"])) }     \* return f?.()

RECURSIVE RootObject(_)
\* `while (current.type === MemberExpression) current = current.object;`
RootObject(current) ==
    IF current.type = "MemberExpression" THEN RootObject(current.object) ELSE current

\* isResponseDataAccess(node)
isResponseDataAccess(node) ==
    IF node.property.type # "Identifier" \/ node.property.name # <<"d", "a", "t", "a">>
    THEN FALSE
    ELSE LET current == RootObject(node.object)
         IN  IF current.type = "Identifier"
             THEN LET name == ToLowerCase(current.name)
                  IN  \/ Includes(name, <<"r", "e", "s", "p", "o", "n", "s", "e">>)
                      \/ Includes(name, <<"r", "e", "s">>)
                      \/ name = <<"r">>
                      \/ Includes(name, <<"r", "e", "s", "u", "l", "t">>)
             ELSE FALSE

RECURSIVE ReadsData(_)
\* some member access on the way down to the root reads `.data`
ReadsData(expression) ==
    /\ expression.type = "MemberExpression"
    /\ \/ expression.property = Id(<<"d", "a", "t", "a">>)
       \/ ReadsData(expression.object)

\* mutant of isDirectResponseDataReturn: a read of `.data` at any depth of
\* the returned member access counts
isDirectResponseDataReturn_AnyDepth(returnNode) ==
    /\ returnNode.argument.type = "MemberExpression"
    /\ ReadsData(returnNode.argument)
    /\ RootObject(returnNode.argument).type = "Identifier"

\* isDirectResponseDataReturn(returnNode)
isDirectResponseDataReturn(returnNode) ==
    IF returnNode.argument.type = "none" THEN FALSE
    ELSE IF returnNode.argument.type = "MemberExpression"
    THEN isResponseDataAccess(returnNode.argument)
    ELSE IF /\ returnNode.argument.type = "ChainExpression"
            /\ returnNode.argument.expression.type = "MemberExpression"
    THEN isResponseDataAccess(returnNode.argument.expression)
    ELSE FALSE

Paths == SeqsUpTo(PathSyms, MaxPath)

SvcInit ==
    /\ WalkIdle /\ CatchIdle /\ CompIdle /\ FixIdle /\ HostIdle /\ StyleIdle
    /\ filename \in Paths
    /\ handlers = {}
    /\ returnsSeen = 0
    /\ svcReports = <<>>
    /\ spc = "new"

\* create(context): the handlers are returned for a service file only
Create ==
    /\ spc = "new"
    /\ handlers' = IF ~matchesServicePath(filename) THEN {} ELSE {"ReturnStatement"}
    /\ spc' = "created"
    /\ UNCHANGED <<filename, returnsSeen, svcReports, notSvc>>

\* the host traverses a return statement; the ReturnStatement handler runs
\* if create() returned one
ReturnStatement ==
    /\ spc = "created"
    /\ returnsSeen < MaxReturns
    /\ returnsSeen' = returnsSeen + 1
    /\ \E node \in ReturnStatements :
         svcReports' =
            IF "ReturnStatement" \in handlers /\ isDirectResponseDataReturn(node)
            THEN Append(svcReports, [node |-> node, at |-> returnsSeen + 1,
                                     messageId |-> "directResponseDataReturn"])
            ELSE svcReports
    /\ UNCHANGED <<filename, handlers, spc, notSvc>>

SvcNext == Create \/ ReturnStatement

SvcSpec == SvcInit /\ [][SvcNext]_vars

(***************************************************************************)
(* Properties of no-response-data-return                                   *)
(***************************************************************************)
\* the path holds the segments src and services, in this order and next to
\* each other, each followed by a separator of either kind
HasServiceSegment(path) ==
    \E i \in 1..(Len(path) - 3) :
        /\ path[i] = "src" /\ path[i + 1] \in {"/", "\\"}
        /\ path[i + 2] = "services" /\ path[i + 3] \in {"/", "\\"}

\* C10: the detector registers its handler only when the path, backslashes
\* read as slashes, contains 'src/services/' (and then it does); for every
\* other path nothing is ever reported, whatever return statements the file
\* holds.
C10_PathScoping ==
    /\ spc = "created" => (handlers # {} <=> HasServiceSegment(filename))
    /\ ~HasServiceSegment(filename) => svcReports = <<>>

\* a file under lib/services/, outside src/services/, whose return
\* statements have all been traversed without a report
C10_Witness ==
    /\ spc = "created"
    /\ returnsSeen = MaxReturns
    /\ Includes(filename, <<"lib", "/", "services", "/">>)
    /\ handlers = {}
    /\ svcReports = <<>>

\* the name, compared without regard to case, is response, res or r, or
\* contains result
SuggestsResponse(name) ==
    LET lower == ToLowerCase(name)
    IN  \/ lower \in { <<"r", "e", "s", "p", "o", "n", "s", "e">>, <<"r", "e", "s">>, <<"r">> }
        \/ \E i \in 1..(Len(lower) - 5) :
             SubSeq(lower, i, i + 5) = <<"r", "e", "s", "u", "l", "t">>

\* C11: in a service file a reported `return X.data` or `return X?.data`,
\* X an identifier, has an X whose name is response, res or r, or contains
\* result, without regard to case; a return off any other root identifier
\* (address, user) is not among the reports.
C11_OnlyResponseNames ==
    \A i \in DOMAIN svcReports :
        LET argument == svcReports[i].node.argument
            member == IF argument.type = "ChainExpression" THEN argument.expression
                      ELSE argument
        IN  (member.type = "MemberExpression" /\ member.object.type = "Identifier")
                => SuggestsResponse(member.object.name)

\* C28: a reported return statement has as its argument a member access
\* whose own property is the identifier data, or an optional chain wrapping
\* such a member access; `return response.data.items`, a returned object
\* literal, a returned call and a bare return are never among the reports.
C28_OutermostData ==
    \A i \in DOMAIN svcReports :
        LET argument == svcReports[i].node.argument
            member == IF argument.type = "ChainExpression" THEN argument.expression
                      ELSE argument
        IN  /\ argument.type \in {"MemberExpression", "ChainExpression"}
            /\ member.type = "MemberExpression"
            /\ member.property.type = "Identifier"
            /\ member.property.name = <<"d", "a", "t", "a">>

\* a service file with two returns traversed: `return res?.data` is the
\* one report
C28_Witness ==
    /\ spc = "created" /\ returnsSeen = MaxReturns
    /\ Len(svcReports) = 1
    /\ svcReports[1].node.argument.type = "ChainExpression"
    /\ svcReports[1].node.argument.expression.object.name = <<"r", "e", "s">>

(***************************************************************************)
(* The host.  It traverses a file node by node and hands every node to the *)
(* handler of its type, whichever detector the handler belongs to; for the *)
(* next file it calls create() of every detector again.  The nodes are     *)
(* those a parser produces and nodes with a missing child field.           *)
(***************************************************************************)
\* greatest number of nodes of a file in a host session
MaxHostNodes == 3

\* the nodes a file of a host session is made of:
\*   FnCard            function Card() { return <div/>; }
\*   FnCardHeader      function CardHeader() { log(); return <></>; }
\*   AssignHeader      Card.Header = CardHeader
\*   AssignNoLeft      an assignment to CardHeader's right without left operand
\*   VarNoId           a declarator of () => <div/> without id
\*   ClassNoObject     class Card extends <member access without object>
\*   CatchEmpty        catch {}
\*   CatchNoBody       a catch clause without body
\*   ReturnData        return response.data
\*   ReturnNoProperty  return <member access of response without property>
HostLib ==
    LET clause == Parse(<<"try", "{", "}", "catch", " ", "{", "}">>)
        CatchClauseNode(c) == [type |-> "CatchClause", clause |-> c]
        response == Id(<<"r", "e", "s", "p", "o", "n", "s", "e">>)
    IN  [FnCard |-> Lib.FnCard,
         FnCardHeader |-> Lib.FnCardHeader,
         AssignHeader |-> Lib.AssignHeader,
         AssignNoLeft |->
            FileNode("AssignmentExpression", NoExpr, NoFn, NoExpr, NoExpr, Ident("CardHeader")),
         VarNoId |->
            FileNode("VariableDeclarator", NoExpr,
                     Fn("ArrowFunctionExpression", TRUE, "JSXElement", <<>>),
                     NoExpr, NoExpr, NoExpr),
         ClassNoObject |->
            FileNode("ClassDeclaration", Ident("Card"), NoFn,
                     [NoExpr EXCEPT !.type = "MemberExpression"], NoExpr, NoExpr),
         CatchEmpty |-> CatchClauseNode(clause),
         CatchNoBody |-> CatchClauseNode([clause EXCEPT !.bodyType = ""]),
         ReturnData |-> ReturnStatementNode(Mem(response, Id(<<"d", "a", "t", "a">>))),
         ReturnNoProperty |-> ReturnStatementNode(Mem(response, NoE))]

HostNodes == {HostLib[k] : k \in DOMAIN HostLib}

\* mutant of CreateCollections: the two collections live outside create()
\* and are shared by every file
CreateCollections_Shared(oldComponents, oldChildren) ==
    [components |-> oldComponents, compoundChildren |-> oldChildren]

\* create(): `const components = []; const compoundChildren = new Set()`,
\* whatever the collections of the create() call before hold
CreateCollections(oldComponents, oldChildren) ==
    [components |-> <<>>, compoundChildren |-> {}]

\* a host session: create() of the three detectors has run for the first
\* file, which lies under src/services/
HostInit ==
    /\ WalkIdle /\ CatchIdle /\ FixIdle /\ HostIdle /\ StyleIdle
    /\ filename = <<"src", "/", "services", "/", "api.ts">>
    /\ handlers = IF ~matchesServicePath(filename) THEN {} ELSE {"ReturnStatement"}
    /\ returnsSeen = 0
    /\ svcReports = <<>>
    /\ spc = "host"
    /\ file = <<>>
    /\ pos = 0
    /\ components = CreateCollections(<<>>, {}).components
    /\ compoundChildren = CreateCollections(<<>>, {}).compoundChildren
    /\ reports = <<>>
    /\ opc = "visiting"

\* the traversal reaches the next node of the file
Traverse ==
    /\ spc = "host" /\ opc = "visiting"
    /\ pos = Len(file) /\ Len(file) < MaxHostNodes
    /\ \E node \in HostNodes : file' = Append(file, node)
    /\ UNCHANGED <<pos, components, compoundChildren, reports, opc, notComp>>

\* the CatchClause handler of no-empty-catch
CatchClause ==
    /\ spc = "host" /\ Dispatch("CatchClause")
    /\ LET reported == CatchClauseReports(file[pos + 1].clause)
       IN  diags' = diags \o [i \in 1..Len(reported) |->
                                 [node |-> pos + 1, report |-> reported[i]]]
    /\ UNCHANGED <<file, components, compoundChildren, reports, opc, orig, text, fixes, cpc,
                   walkVars, svcVars, fixVars, hostVars, styleVars>>

\* the ReturnStatement handler of no-response-data-return
HostReturnStatement ==
    /\ spc = "host" /\ Dispatch("ReturnStatement")
    /\ svcReports' =
         IF "ReturnStatement" \in handlers /\ isDirectResponseDataReturn(file[pos + 1])
         THEN Append(svcReports, [node |-> file[pos + 1], at |-> pos + 1,
                                  messageId |-> "directResponseDataReturn"])
         ELSE svcReports
    /\ UNCHANGED <<file, components, compoundChildren, reports, opc, filename, handlers,
                   returnsSeen, spc, walkVars, catchVars, fixVars, hostVars, styleVars>>

\* the host turns to the next file, at the end of the file or after giving
\* up on it half way: create() runs again
NextFile ==
    /\ spc = "host" /\ opc \in {"visiting", "exited"}
    /\ earlier' = earlier \cup compoundChildren
                   \cup {components[i].name : i \in 1..Len(components)}
    /\ components' = CreateCollections(components, compoundChildren).components
    /\ compoundChildren' = CreateCollections(components, compoundChildren).compoundChildren
    /\ file' = <<>> /\ pos' = 0
    /\ reports' = <<>> /\ diags' = <<>> /\ svcReports' = <<>>
    /\ opc' = "visiting"
    /\ UNCHANGED <<orig, text, fixes, cpc, filename, handlers, returnsSeen, spc,
                   walkVars, fixVars, styleVars>>

HostNext ==
    \/ Traverse
    \/ AssignmentExpression
    \/ FunctionDeclaration
    \/ VariableDeclarator
    \/ ClassDeclaration
    \/ CatchClause
    \/ HostReturnStatement
    \/ ProgramExit
    \/ NextFile

HostSpec == HostInit /\ [][HostNext]_vars

(***************************************************************************)
(* Properties of a host session, stated on the nodes of the file           *)
(***************************************************************************)
\* the nodes with a missing child field
MalformedNodes ==
    {HostLib.AssignNoLeft, HostLib.VarNoId, HostLib.ClassNoObject, HostLib.CatchNoBody,
     HostLib.ReturnNoProperty}

\* the positions of the file holding the given node, in file order
PositionsOf(f, node) == SelectSeq([i \in 1..Len(f) |-> i], LAMBDA i : f[i] = node)

\* the multipleComponents report is the one the file's own definitions and
\* assignments call for
OwnReport(f) ==
    IF Len(Remaining(f)) <= 1 THEN reports = <<>>
    ELSE /\ Len(reports) = 1
         /\ reports[1].node = Remaining(f)[2]
         /\ reports[1].count = Len(Remaining(f))

\* C21: no handler of the three detectors lets an error out, whatever node
\* it is given, and at end-of-file the diagnostics on the well-formed nodes
\* are those the well-formed nodes alone call for: the report of
\* one-component-per-file, one emptyCatch per `catch {}` and one
\* directResponseDataReturn per `return response.data`, in file order.
C21_Isolation ==
    /\ opc # "crashed"
    /\ opc = "exited" =>
         /\ OwnReport(file)
         /\ [i \in 1..Len(svcReports) |-> svcReports[i].at]
              = PositionsOf(file, HostLib.ReturnData)
         /\ SelectSeq([i \in 1..Len(diags) |-> diags[i].node],
                      LAMBDA n : file[n] \notin MalformedNodes)
              = PositionsOf(file, HostLib.CatchEmpty)
         /\ \A i \in 1..Len(diags) : diags[i].report.messageId = "emptyCatch"

\* a file of two definitions with, between them, an assignment without left
\* operand, on which the handler's body raised: the report is made
C21_Witness ==
    /\ opc = "exited"
    /\ file = <<HostLib.FnCard, HostLib.AssignNoLeft, HostLib.FnCardHeader>>
    /\ AssignmentRaises(file[2])
    /\ Len(reports) = 1 /\ reports[1].node = 3

\* C22: a malformed node is classified as nothing: it is not collected as a
\* component and no diagnostic of any detector is made on it.
C22_MalformedUnclassified ==
    \A n \in 1..pos :
        file[n] \in MalformedNodes =>
            /\ \A i \in 1..Len(components) : components[i].node # n
            /\ \A i \in 1..Len(diags) : diags[i].node # n
            /\ \A i \in 1..Len(svcReports) : svcReports[i].at # n
            /\ \A i \in 1..Len(reports) : reports[i].node # n

\* C24: whatever the create() calls of earlier files collected, what is
\* collected and reported for a file is what the file alone calls for: the
\* components are definitions of this file under their own names, the
\* compound children are the names attached in this file, and at
\* end-of-file the report is the file's own.
C24_FreshPerFile ==
    /\ spc = "host" =>
         /\ \A i \in 1..Len(components) :
              /\ components[i].node \in 1..pos
              /\ file[components[i].node] \in ComponentDefinitions
              /\ components[i].name = DefinedName(file[components[i].node])
         /\ compoundChildren = AttachedNames(SubSeq(file, 1, pos))
    /\ (spc = "host" /\ opc = "exited") => OwnReport(file)

\* a file holding CardHeader alone, analysed after a file for which Card and
\* CardHeader had been collected: one component, no report
C24_Witness ==
    /\ spc = "host" /\ opc = "exited"
    /\ earlier = {"Card", "CardHeader"}
    /\ file = <<HostLib.FnCardHeader>>
    /\ Len(components) = 1
    /\ reports = <<>>

(***************************************************************************)
(* Import analysis and fix synthesis (utils/ast-helpers).  The source of a *)
(* module is a sequence of tokens; the token at index i occupies the       *)
(* offsets [i - 1, i), and the parser gives every node its range.          *)
(***************************************************************************)
IdentifierTokens ==
    {"React", "Foo", "R", "memo", "m", "useState", "useRef", "Svg", "SvgProps",
     "Path", "Icon", "props", "P"}

SourceTokens == {"'react'", "'react-native-svg'"}

ParseError == [ok |-> FALSE]

RECURSIVE ParseSpecifiers(_, _, _, _, _)
\* the import specifiers from index i up to the `from` token; st is what the
\* last token was: "start", "open", "spec" or "comma"
ParseSpecifiers(txt, i, braced, st, acc) ==
    IF i > Len(txt) THEN ParseError
    ELSE CASE txt[i] = "from" ->
                IF ~braced /\ st = "spec"
                THEN [ok |-> TRUE, specifiers |-> acc, from |-> i]
                ELSE ParseError
           [] txt[i] = "," ->
                IF st = "spec" THEN ParseSpecifiers(txt, i + 1, braced, "comma", acc)
                ELSE ParseError
           [] txt[i] = "{" ->
                IF ~braced /\ st \in {"start", "comma"}
                THEN ParseSpecifiers(txt, i + 1, TRUE, "open", acc)
                ELSE ParseError
           [] txt[i] = "}" ->
                IF braced /\ st # "start"
                THEN ParseSpecifiers(txt, i + 1, FALSE, "spec", acc)
                ELSE ParseError
           [] txt[i] = "*" ->
                IF /\ ~braced /\ st \in {"start", "comma"} /\ i + 2 <= Len(txt)
                   /\ txt[i + 1] = "as" /\ txt[i + 2] \in IdentifierTokens
                THEN ParseSpecifiers(txt, i + 3, braced, "spec",
                        Append(acc, [type |-> "ImportNamespaceSpecifier", imported |-> "",
                                     local |-> txt[i + 2], range |-> <<i - 1, i + 2>>]))
                ELSE ParseError
           [] txt[i] \in IdentifierTokens ->
                IF st \notin {"start", "open", "comma"} THEN ParseError
                ELSE IF ~braced
                THEN ParseSpecifiers(txt, i + 1, braced, "spec",
                        Append(acc, [type |-> "ImportDefaultSpecifier", imported |-> "",
                                     local |-> txt[i], range |-> <<i - 1, i>>]))
                ELSE IF i + 2 <= Len(txt) /\ txt[i + 1] = "as" /\ txt[i + 2] \in IdentifierTokens
                THEN ParseSpecifiers(txt, i + 3, braced, "spec",
                        Append(acc, [type |-> "ImportSpecifier", imported |-> txt[i],
                                     local |-> txt[i + 2], range |-> <<i - 1, i + 2>>]))
                ELSE ParseSpecifiers(txt, i + 1, braced, "spec",
                        Append(acc, [type |-> "ImportSpecifier", imported |-> txt[i],
                                     local |-> txt[i], range |-> <<i - 1, i>>]))
           [] OTHER -> ParseError

At(txt, i) == IF i \in 1..Len(txt) THEN txt[i] ELSE "<eof>"

\* `import 'm';` or `import <specifiers> from 'm';` at index i
ParseImportDeclaration(txt, i) ==
    IF At(txt, i + 1) \in SourceTokens
    THEN IF At(txt, i + 2) = ";"
         THEN [ok |-> TRUE, next |-> i + 3,
               node |-> [type |-> "ImportDeclaration", specifiers |-> <<>>,
                         source |-> [value |-> txt[i + 1], range |-> <<i, i + 1>>],
                         range |-> <<i - 1, i + 2>>]]
         ELSE ParseError
    ELSE LET r == ParseSpecifiers(txt, i + 1, FALSE, "start", <<>>)
         IN  IF r.ok /\ At(txt, r.from + 1) \in SourceTokens /\ At(txt, r.from + 2) = ";"
             THEN [ok |-> TRUE, next |-> r.from + 3,
                   node |-> [type |-> "ImportDeclaration", specifiers |-> r.specifiers,
                             source |-> [value |-> txt[r.from + 1],
                                         range |-> <<r.from, r.from + 1>>],
                             range |-> <<i - 1, r.from + 2>>]]
             ELSE ParseError

\* `()`, `(p)`, `(p: T)`, `({a})` or `({a}: T)` with the `(` at index j
ParseParams(txt, j) ==
    LET patternType == IF At(txt, j + 1) = "{a}" THEN "ObjectPattern" ELSE "Identifier"
    IN  IF At(txt, j) # "(" THEN ParseError
        ELSE IF At(txt, j + 1) = ")"
        THEN [ok |-> TRUE, params |-> <<>>, next |-> j + 2]
        ELSE IF At(txt, j + 1) \notin IdentifierTokens \cup {"{a}"} THEN ParseError
        ELSE IF At(txt, j + 2) = ")"
        THEN [ok |-> TRUE, next |-> j + 3,
              params |-> << [type |-> patternType, name |-> txt[j + 1],
                             typeAnnotation |-> <<>>, range |-> <<j, j + 1>>] >>]
        ELSE IF At(txt, j + 2) = ":" /\ At(txt, j + 4) = ")"
        THEN [ok |-> TRUE, next |-> j + 5,
              params |-> << [type |-> patternType, name |-> txt[j + 1],
                             typeAnnotation |-> <<j + 1, j + 3>>, range |-> <<j, j + 3>>] >>]
        ELSE ParseError

\* `function Name <params> {}` at index i
ParseFunctionDeclaration(txt, i) ==
    LET r == ParseParams(txt, i + 2)
    IN  IF At(txt, i + 1) \in IdentifierTokens /\ r.ok /\ At(txt, r.next) = "{}"
        THEN [ok |-> TRUE, next |-> r.next + 1,
              node |-> [type |-> "FunctionDeclaration",
                        id |-> [type |-> "Identifier", name |-> txt[i + 1],
                                range |-> <<i, i + 1>>],
                        params |-> r.params,
                        body |-> [type |-> "BlockStatement", range |-> <<r.next - 1, r.next>>],
                        range |-> <<i - 1, r.next>>]]
        ELSE ParseError

\* `const Name = <params> => {};` or `const Name = function <params> {};`
\* at index i
ParseVariableDeclaration(txt, i) ==
    LET arrow == At(txt, i + 3) # "function"
        r == ParseParams(txt, IF arrow THEN i + 3 ELSE i + 4)
        body == IF arrow THEN r.next + 1 ELSE r.next
    IN  IF /\ At(txt, i + 1) \in IdentifierTokens /\ At(txt, i + 2) = "=" /\ r.ok
           /\ arrow => At(txt, r.next) = "=>"
           /\ At(txt, body) = "{}" /\ At(txt, body + 1) = ";"
        THEN [ok |-> TRUE, next |-> body + 2,
              node |-> [type |-> "VariableDeclaration", range |-> <<i - 1, body + 1>>,
                        declarator |->
                          [type |-> "VariableDeclarator",
                           id |-> [type |-> "Identifier", name |-> txt[i + 1],
                                   range |-> <<i, i + 1>>],
                           init |-> [type |-> IF arrow THEN "ArrowFunctionExpression"
                                              ELSE "FunctionExpression",
                                     params |-> r.params,
                                     body |-> [type |-> "BlockStatement",
                                               range |-> <<body - 1, body>>],
                                     range |-> <<i + 2, body>>],
                           range |-> <<i, body>>]]]
        ELSE ParseError

\* `export default Name;`, `export default f(Name);` or
\* `export default o.f(Name);` at index i
ParseExportDefault(txt, i) ==
    LET Name(k) == [type |-> "Identifier", name |-> txt[k], range |-> <<k - 1, k>>]
        Export(declaration, last) ==
            [ok |-> TRUE, next |-> last + 1,
             node |-> [type |-> "ExportDefaultDeclaration", declaration |-> declaration,
                       range |-> <<i - 1, last>>]]
    IN  IF At(txt, i + 1) # "default" \/ At(txt, i + 2) \notin IdentifierTokens
        THEN ParseError
        ELSE IF At(txt, i + 3) = ";" THEN Export(Name(i + 2), i + 3)
        ELSE IF /\ At(txt, i + 3) = "(" /\ At(txt, i + 4) \in IdentifierTokens
                /\ At(txt, i + 5) = ")" /\ At(txt, i + 6) = ";"
        THEN Export([type |-> "CallExpression", callee |-> Name(i + 2),
                     arguments |-> <<Name(i + 4)>>, range |-> <<i + 1, i + 5>>], i + 6)
        ELSE IF /\ At(txt, i + 3) = "." /\ At(txt, i + 4) \in IdentifierTokens
                /\ At(txt, i + 5) = "(" /\ At(txt, i + 6) \in IdentifierTokens
                /\ At(txt, i + 7) = ")" /\ At(txt, i + 8) = ";"
        THEN Export([type |-> "CallExpression",
                     callee |-> [type |-> "MemberExpression", object |-> Name(i + 2),
                                 property |-> Name(i + 4), range |-> <<i + 1, i + 4>>],
                     arguments |-> <<Name(i + 6)>>, range |-> <<i + 1, i + 7>>], i + 8)
        ELSE ParseError

RECURSIVE ParseBody(_, _, _)
\* the statements from index i on; a comment is not a node
ParseBody(txt, i, acc) ==
    IF i > Len(txt) THEN [ok |-> TRUE, body |-> acc]
    ELSE IF txt[i] = "//c" THEN ParseBody(txt, i + 1, acc)
    ELSE LET r == CASE txt[i] = "import" -> ParseImportDeclaration(txt, i)
                    [] txt[i] = "function" -> ParseFunctionDeclaration(txt, i)
                    [] txt[i] = "const" -> ParseVariableDeclaration(txt, i)
                    [] txt[i] = "export" -> ParseExportDefault(txt, i)
                    [] OTHER -> ParseError
         IN  IF r.ok THEN ParseBody(txt, r.next, Append(acc, r.node)) ELSE ParseError

\* the Program node of a source text; its range starts at the first token
\* that is not a comment
ParseProgram(txt) ==
    LET r == ParseBody(txt, 1, <<>>)
    IN  IF ~r.ok THEN ParseError
        ELSE [ok |-> TRUE, type |-> "Program", body |-> r.body,
              range |-> <<IF r.body = <<>> THEN Len(txt) ELSE r.body[1].range[1], Len(txt)>>]

NoImport == [type |-> "null"]

\* the first import declaration of the module `source`
FirstImport(programNode, source) ==
    LET found == {i \in DOMAIN programNode.body :
                    /\ programNode.body[i].type = "ImportDeclaration"
                    /\ programNode.body[i].source.value = source}
    IN  IF found = {} THEN NoImport
        ELSE programNode.body[CHOOSE i \in found : \A j \in found : i <= j]

\* analyzeReactImport(programNode)
analyzeReactImport(programNode) ==
    LET reactImport == FirstImport(programNode, "'react'")
    IN  IF reactImport = NoImport
        THEN [style |-> "NONE", hasDefaultImport |-> FALSE, hasNamedImports |-> FALSE,
              hasMemoImport |-> FALSE, importNode |-> NoImport]
        ELSE LET Has(type) == \E k \in DOMAIN reactImport.specifiers :
                                 reactImport.specifiers[k].type = type
                 hasDefaultImport == Has("ImportDefaultSpecifier")
                 hasNamespaceImport == Has("ImportNamespaceSpecifier")
                 hasNamedImports == Has("ImportSpecifier")
                 hasMemoImport ==
                    \E k \in DOMAIN reactImport.specifiers :
                        /\ reactImport.specifiers[k].type = "ImportSpecifier"
                        /\ reactImport.specifiers[k].imported = "memo"
             IN  [style |-> IF hasNamespaceImport THEN "NAMESPACE"
                            ELSE IF hasDefaultImport /\ hasNamedImports THEN "MIXED"
                            ELSE IF hasDefaultImport THEN "DEFAULT_ONLY"
                            ELSE IF hasNamedImports THEN "NAMED_ONLY"
                            ELSE "NONE",
                  hasDefaultImport |-> hasDefaultImport,
                  hasNamedImports |-> hasNamedImports,
                  hasMemoImport |-> hasMemoImport,
                  importNode |-> reactImport]

\* the strategy values; memoReference is "memo" or "React.memo", as tokens
MemoStrategy(memoReference, needsMemoImport, importUpdateStrategy) ==
    [memoReference |-> memoReference, needsMemoImport |-> needsMemoImport,
     importUpdateStrategy |-> importUpdateStrategy]

\* mutant of selectMemoStrategy: a default import gets `{ memo }` merged in
selectMemoStrategy_MergeIntoDefault(analysis) ==
    IF analysis.hasMemoImport THEN MemoStrategy(<<"memo">>, FALSE, "NO_UPDATE")
    ELSE IF analysis.style = "NAMESPACE"
    THEN MemoStrategy(<<"React", ".", "memo">>, FALSE, "NO_UPDATE")
    ELSE IF analysis.style = "DEFAULT_ONLY"
    THEN MemoStrategy(<<"memo">>, TRUE, "ADD_NAMED_TO_DEFAULT")
    ELSE IF analysis.style \in {"NAMED_ONLY", "MIXED"}
    THEN MemoStrategy(<<"memo">>, TRUE, "ADD_TO_NAMED")
    ELSE MemoStrategy(<<"memo">>, TRUE, "CREATE_NEW_IMPORT")

\* mutant of selectMemoStrategy: an existing import of memo is not looked at
selectMemoStrategy_IgnoresMemoImport(analysis) ==
    IF analysis.style \in {"NAMESPACE", "DEFAULT_ONLY"}
    THEN MemoStrategy(<<"React", ".", "memo">>, FALSE, "NO_UPDATE")
    ELSE IF analysis.style \in {"NAMED_ONLY", "MIXED"}
    THEN MemoStrategy(<<"memo">>, TRUE, "ADD_TO_NAMED")
    ELSE MemoStrategy(<<"memo">>, TRUE, "CREATE_NEW_IMPORT")

\* selectMemoStrategy(analysis)
selectMemoStrategy(analysis) ==
    IF analysis.hasMemoImport THEN MemoStrategy(<<"memo">>, FALSE, "NO_UPDATE")
    ELSE IF analysis.style = "NAMESPACE"
    THEN MemoStrategy(<<"React", ".", "memo">>, FALSE, "NO_UPDATE")
    ELSE IF analysis.style = "DEFAULT_ONLY"
    THEN MemoStrategy(<<"React", ".", "memo">>, FALSE, "NO_UPDATE")
    ELSE IF analysis.style = "NAMED_ONLY"
    THEN MemoStrategy(<<"memo">>, TRUE, "ADD_TO_NAMED")
    ELSE IF analysis.style = "MIXED"
    THEN MemoStrategy(<<"memo">>, TRUE, "ADD_TO_NAMED")
    ELSE MemoStrategy(<<"memo">>, TRUE, "CREATE_NEW_IMPORT")

\* an ImportFix: a replacement of the range by the text
ImportFix(start, end, txt) == [range |-> <<start, end>>, text |-> txt]

\* importNode.specifiers.filter(spec => spec.type === ImportSpecifier)
NamedSpecifiers(importNode) ==
    IF importNode = NoImport THEN <<>>
    ELSE SelectSeq(importNode.specifiers, LAMBDA spec : spec.type = "ImportSpecifier")

\* the edit of the ADD_TO_NAMED branch of updateImports, after the named
\* specifier at the index
AddToNamed(namedSpecifiers, at) ==
    IF namedSpecifiers = <<>> THEN <<>>
    ELSE LET insertPosition == namedSpecifiers[at].range[2]
         IN  <<ImportFix(insertPosition, insertPosition, <<",", "memo">>)>>

\* the edit of the ADD_NAMED_TO_DEFAULT branch of updateImports
AddNamedToDefault(importNode) ==
    LET defaults == IF importNode = NoImport THEN <<>>
                    ELSE SelectSeq(importNode.specifiers,
                                   LAMBDA spec : spec.type = "ImportDefaultSpecifier")
    IN  IF defaults = <<>> THEN <<>>
        ELSE <<ImportFix(defaults[1].range[2], defaults[1].range[2],
                         <<",", "{", "memo", "}">>)>>

NewMemoImport == <<"import", "{", "memo", "}", "from", "'react'", ";">>

\* mutant of updateImports: memo is put after the first named specifier
updateImports_FirstNamed(strategy, importNode, programNode) ==
    CASE strategy.importUpdateStrategy = "ADD_TO_NAMED" ->
            AddToNamed(NamedSpecifiers(importNode), 1)
      [] strategy.importUpdateStrategy = "ADD_NAMED_TO_DEFAULT" ->
            AddNamedToDefault(importNode)
      [] strategy.importUpdateStrategy = "CREATE_NEW_IMPORT" ->
            <<ImportFix(programNode.range[1], programNode.range[1], NewMemoImport)>>
      [] OTHER -> <<>>

\* mutant of updateImports: the new import goes to offset 0
updateImports_AtZero(strategy, importNode, programNode) ==
    CASE strategy.importUpdateStrategy = "ADD_TO_NAMED" ->
            AddToNamed(NamedSpecifiers(importNode), Len(NamedSpecifiers(importNode)))
      [] strategy.importUpdateStrategy = "ADD_NAMED_TO_DEFAULT" ->
            AddNamedToDefault(importNode)
      [] strategy.importUpdateStrategy = "CREATE_NEW_IMPORT" ->
            <<ImportFix(0, 0, NewMemoImport)>>
      [] OTHER -> <<>>

\* updateImports(strategy, importNode, programNode).fixes; every node that
\* the parser made has a range
updateImports(strategy, importNode, programNode) ==
    CASE strategy.importUpdateStrategy = "NO_UPDATE" -> <<>>
      [] strategy.importUpdateStrategy = "ADD_TO_NAMED" ->
            AddToNamed(NamedSpecifiers(importNode), Len(NamedSpecifiers(importNode)))
      [] strategy.importUpdateStrategy = "ADD_NAMED_TO_DEFAULT" ->
            AddNamedToDefault(importNode)
      [] strategy.importUpdateStrategy = "CREATE_NEW_IMPORT" ->
            <<ImportFix(programNode.range[1], programNode.range[1], NewMemoImport)>>
      [] OTHER -> <<>>

\* the text after the edits, whose offsets refer to txt; the edit that
\* starts last is applied first
RECURSIVE ApplyEdits(_, _)
ApplyEdits(txt, fixList) ==
    IF fixList = <<>> THEN txt
    ELSE LET k == CHOOSE i \in DOMAIN fixList :
                    \A j \in DOMAIN fixList : fixList[j].range[1] <= fixList[i].range[1]
             rest == [i \in 1..(Len(fixList) - 1) |->
                        IF i < k THEN fixList[i] ELSE fixList[i + 1]]
         IN  ApplyEdits(SubSeq(txt, 1, fixList[k].range[1]) \o fixList[k].text
                            \o SubSeq(txt, fixList[k].range[2] + 1, Len(txt)),
                        rest)

\* greatest number of import declarations in a module
MaxImports == 2

\* the import declarations a module may hold
ImportTexts ==
    LET From(specifiers, from) == <<"import">> \o specifiers \o <<"from", from, ";">>
    IN  { <<"import", "'react'", ";">>,
          From(<<"React">>, "'react'"),
          From(<<"Foo">>, "'react'"),
          From(<<"*", "as", "React">>, "'react'"),
          From(<<"*", "as", "R">>, "'react'"),
          From(<<"{", "memo", "}">>, "'react'"),
          From(<<"{", "memo", "as", "m", "}">>, "'react'"),
          From(<<"{", "useState", ",", "useRef", "}">>, "'react'"),
          From(<<"React", ",", "{", "useState", "}">>, "'react'"),
          From(<<"React", ",", "{", "memo", "}">>, "'react'"),
          From(<<"{", "Svg", "}">>, "'react-native-svg'") }

\* the component a module may hold
ComponentTexts == { <<>>, <<"function", "Icon", "(", "props", ")", "{}">> }

\* the default export a module may hold
ExportTexts ==
    { <<>>,
      <<"export", "default", "Icon", ";">>,
      <<"export", "default", "memo", "(", "Icon", ")", ";">>,
      <<"export", "default", "React", ".", "memo", "(", "Icon", ")", ";">> }

\* the modules analysed: [// c] <imports> [component] [export default]
MemoInit ==
    /\ WalkIdle /\ CatchIdle /\ CompIdle /\ SvcIdle /\ HostIdle /\ StyleIdle
    /\ \E lead \in {<<>>, <<"//c">>}, imports \in SeqsUpTo(ImportTexts, MaxImports),
          fn \in ComponentTexts, export \in ExportTexts :
         srcText = lead \o Flatten(imports) \o fn \o export
    /\ importAnalysis = Unset
    /\ chosen = Unset
    /\ componentAt = 0
    /\ fixEdits = <<>>
    /\ fixSuccess = FALSE
    /\ mdiags = <<>>
    /\ fpc = "parsed"

\* const analysis = analyzeReactImport(programNode)
AnalyzeReactImport ==
    /\ fpc = "parsed"
    /\ chosen = Unset
    /\ importAnalysis' = analyzeReactImport(ParseProgram(srcText))
    /\ fpc' = "analyzed"
    /\ UNCHANGED <<srcText, chosen, componentAt, fixEdits, fixSuccess, mdiags, notFix>>

\* const strategy = selectMemoStrategy(analysis)
SelectMemoStrategy ==
    /\ fpc = "analyzed"
    /\ chosen' = selectMemoStrategy(importAnalysis)
    /\ fpc' = "selected"
    /\ UNCHANGED <<srcText, importAnalysis, componentAt, fixEdits, fixSuccess, mdiags, notFix>>

\* updateImports(strategy, analysis.importNode, programNode)
UpdateImports ==
    /\ fpc = "selected"
    /\ fixEdits' = updateImports(chosen, importAnalysis.importNode, ParseProgram(srcText))
    /\ fpc' = "updated"
    /\ UNCHANGED <<srcText, importAnalysis, chosen, componentAt, fixSuccess, mdiags, notFix>>

\* the host applies the import edits to the text
ApplyImportEdits ==
    /\ fpc = "updated"
    /\ srcText' = ApplyEdits(srcText, fixEdits)
    /\ fpc' = "fixed"
    /\ UNCHANGED <<importAnalysis, chosen, componentAt, fixEdits, fixSuccess, mdiags, notFix>>

\* the program defines a component of this name
DefinesComponent(programNode, name) ==
    \E i \in DOMAIN programNode.body :
        LET statement == programNode.body[i]
        IN  \/ statement.type = "FunctionDeclaration" /\ statement.id.name = name
            \/ statement.type = "VariableDeclaration" /\ statement.declarator.id.name = name

\* the diagnostics of the memoized-export detector: a default export that
\* is a bare reference to a component gets the fix that wraps the reference
\* in the memoization call and makes the memoization function importable
memoizedExport(programNode) ==
    LET exports == SelectSeq(programNode.body,
                             LAMBDA statement : statement.type = "ExportDefaultDeclaration")
    IN  IF exports = <<>> THEN <<>>
        ELSE LET declaration == exports[1].declaration
             IN  IF declaration.type # "Identifier" THEN <<>>
                 ELSE IF ~DefinesComponent(programNode, declaration.name) THEN <<>>
                 ELSE LET reactImport == analyzeReactImport(programNode)
                          memo == selectMemoStrategy(reactImport)
                      IN  << [messageId |-> "memoizeExport", node |-> exports[1],
                              fix |-> updateImports(memo, reactImport.importNode, programNode)
                                      \o <<ImportFix(declaration.range[1], declaration.range[2],
                                                     memo.memoReference
                                                        \o <<"(", declaration.name, ")">>)>>] >>

\* the host runs the memoized-export detector over the module
MemoizedExport ==
    /\ fpc = "parsed"
    /\ chosen = Unset
    /\ mdiags' = memoizedExport(ParseProgram(srcText))
    /\ fpc' = "linted"
    /\ UNCHANGED <<srcText, importAnalysis, chosen, componentAt, fixEdits, fixSuccess, notFix>>

MemoNext ==
    \/ AnalyzeReactImport
    \/ SelectMemoStrategy
    \/ UpdateImports
    \/ ApplyImportEdits
    \/ MemoizedExport

MemoSpec == MemoInit /\ [][MemoNext]_vars

(***************************************************************************)
(* Properties of the strategy selector and of updateImports                *)
(***************************************************************************)
\* the import declaration of react that was analysed
AnalysedImport == importAnalysis.importNode

SpecifierTypes(node) == {node.specifiers[k].type : k \in DOMAIN node.specifiers}

\* memo is among the names the declaration imports
ImportsMemo(node) ==
    \E k \in DOMAIN node.specifiers :
        node.specifiers[k].type = "ImportSpecifier" /\ node.specifiers[k].imported = "memo"

\* zero-width insertion of the tokens at the offset
Insertion(offset, tokens) == [range |-> <<offset, offset>>, text |-> tokens]

\* the text parses and a declaration of it imports memo from react by name,
\* under the local name memo
NamedMemoImported(txt) ==
    LET programNode == ParseProgram(txt)
    IN  /\ programNode.ok
        /\ \E i \in DOMAIN programNode.body :
             /\ programNode.body[i].type = "ImportDeclaration"
             /\ programNode.body[i].source.value = "'react'"
             /\ \E k \in DOMAIN programNode.body[i].specifiers :
                  /\ programNode.body[i].specifiers[k].type = "ImportSpecifier"
                  /\ programNode.body[i].specifiers[k].imported = "memo"
                  /\ programNode.body[i].specifiers[k].local = "memo"

\* react is imported with named bindings only, memo not among them
NamedOnlyWithoutMemo ==
    /\ AnalysedImport # NoImport
    /\ SpecifierTypes(AnalysedImport) = {"ImportSpecifier"}
    /\ ~ImportsMemo(AnalysedImport)

\* react is imported with a default binding only
DefaultOnly ==
    /\ AnalysedImport # NoImport
    /\ SpecifierTypes(AnalysedImport) = {"ImportDefaultSpecifier"}

\* C13, as claimed: when react is imported with only a default binding or
\* with only named bindings, memo not among them, the fix holds an import
\* edit, after which memo is a named import of the module.
C13_NamedImportEdit ==
    (fpc = "fixed" /\ (DefaultOnly \/ NamedOnlyWithoutMemo))
        => (fixEdits # <<>> /\ NamedMemoImported(srcText))

\* C13, amended: with only named bindings, memo not among them, the single
\* import edit inserts `, memo` at the end of the last named specifier and
\* memo is a named import afterwards; with only a default binding the
\* reference is React.memo and there is no import edit.
C13_NamedOnlyAppends ==
    fpc = "fixed" =>
        /\ NamedOnlyWithoutMemo =>
             LET last == AnalysedImport.specifiers[Len(AnalysedImport.specifiers)]
             IN  /\ fixEdits = <<Insertion(last.range[2], <<",", "memo">>)>>
                 /\ NamedMemoImported(srcText)
        /\ DefaultOnly =>
             /\ fixEdits = <<>>
             /\ chosen.memoReference = <<"React", ".", "memo">>
             /\ chosen.importUpdateStrategy = "NO_UPDATE"

\* `import { useState, useRef } from 'react'` has become
\* `import { useState, useRef, memo } from 'react'`
C13_Witness ==
    /\ fpc = "fixed"
    /\ NamedOnlyWithoutMemo
    /\ Len(AnalysedImport.specifiers) = 2
    /\ Includes(srcText, <<"{", "useState", ",", "useRef", ",", "memo", "}">>)

FirstStatementOffset(txt) ==
    IF \A i \in DOMAIN txt : txt[i] = "//c" THEN Len(txt)
    ELSE (CHOOSE i \in DOMAIN txt : txt[i] # "//c" /\ \A j \in 1..(i - 1) : txt[j] = "//c") - 1

\* C16: updateImports returns exactly one edit when the strategy needs an
\* import and none otherwise; for a mixed default and named import it is
\* the insertion of `, memo` at the end of the last named specifier; when
\* the text imports nothing from react it is the insertion of a new import
\* statement at the start of the program.
C16_OneEdit ==
    fpc = "updated" =>
        /\ Len(fixEdits) = (IF chosen.needsMemoImport THEN 1 ELSE 0)
        /\ ( /\ AnalysedImport # NoImport
             /\ SpecifierTypes(AnalysedImport) = {"ImportDefaultSpecifier", "ImportSpecifier"}
             /\ ~ImportsMemo(AnalysedImport) ) =>
             LET last == AnalysedImport.specifiers[Len(AnalysedImport.specifiers)]
             IN  fixEdits = <<Insertion(last.range[2], <<",", "memo">>)>>
        /\ (\A i \in DOMAIN srcText : srcText[i] # "'react'") =>
             fixEdits = <<Insertion(FirstStatementOffset(srcText),
                                    <<"import", "{", "memo", "}", "from", "'react'", ";">>)>>

\* a module that starts with a comment and imports nothing from react gets
\* the new import after the comment
C16_Witness ==
    /\ fpc = "updated"
    /\ Len(srcText) > 1
    /\ srcText[1] = "//c"
    /\ \A i \in DOMAIN srcText : srcText[i] # "'react'"
    /\ Len(fixEdits) = 1
    /\ fixEdits[1].range = <<1, 1>>

\* the local names that the import declarations of a text bind
BoundLocals(txt) ==
    LET programNode == ParseProgram(txt)
    IN  IF ~programNode.ok THEN {}
        ELSE UNION { {programNode.body[i].specifiers[k].local :
                        k \in DOMAIN programNode.body[i].specifiers} :
                     i \in {j \in DOMAIN programNode.body :
                              programNode.body[j].type = "ImportDeclaration"} }

\* C17: after the import edits of the selected strategy are applied, the
\* head of memoReference (memo or React) is a local name that an import
\* declaration of the text binds.
C17_ReferenceInScope ==
    fpc = "fixed" => chosen.memoReference[1] \in BoundLocals(srcText)

\* the text holds `import React from 'react';` and no other import, the
\* component Icon, and ends with `export default Icon;`
DefaultImportBareExport(txt) ==
    /\ Cardinality({i \in DOMAIN txt : txt[i] = "import"}) = 1
    /\ Includes(txt, <<"import", "React", "from", "'react'", ";">>)
    /\ Includes(txt, <<"function", "Icon">>)
    /\ Len(txt) >= 4
    /\ SubSeq(txt, Len(txt) - 3, Len(txt)) = <<"export", "default", "Icon", ";">>

\* C14: for a module whose only import is `import React from 'react'` and
\* whose default export is a bare reference to its component, the detector
\* emits exactly one memoizeExport diagnostic, and its fix turns the export
\* into `export default React.memo(Icon);` and changes nothing else; a
\* default export that is already a call, and a module without a default
\* export, get no diagnostic.
C14_MemoizedExport ==
    fpc = "linted" =>
        /\ DefaultImportBareExport(srcText) =>
             /\ Len(mdiags) = 1
             /\ mdiags[1].messageId = "memoizeExport"
             /\ ApplyEdits(srcText, mdiags[1].fix)
                  = SubSeq(srcText, 1, Len(srcText) - 4)
                      \o <<"export", "default", "React", ".", "memo", "(", "Icon", ")", ";">>
        /\ (\A i \in DOMAIN srcText : srcText[i] # "export") => mdiags = <<>>
        /\ (\E i \in DOMAIN srcText : srcText[i] = "export" /\ srcText[i + 3] \in {"(", "."})
             => mdiags = <<>>

\* the detector has run over such a module and reported
C14_Witness ==
    /\ fpc = "linted"
    /\ DefaultImportBareExport(srcText)
    /\ Len(mdiags) = 1

(***************************************************************************)
(* Type annotation of a component (utils/ast-helpers)                      *)
(***************************************************************************)
\* getTypeAnnotationStrategy(environment, importStyle); propsType is one
\* token
getTypeAnnotationStrategy(environment, importStyle) ==
    IF environment = "REACT_NATIVE"
    THEN [propsType |-> "SvgProps", needsTypeImport |-> TRUE,
          typeImportSource |-> "'react-native-svg'", needsComponentImport |-> TRUE]
    ELSE IF importStyle = "NAMESPACE"
    THEN [propsType |-> "React.SVGProps<SVGSVGElement>", needsTypeImport |-> FALSE,
          typeImportSource |-> "null", needsComponentImport |-> FALSE]
    ELSE [propsType |-> "React.SVGProps<SVGSVGElement>", needsTypeImport |-> FALSE,
          typeImportSource |-> "null", needsComponentImport |-> FALSE]

\* the first parameter is an Identifier that carries a type annotation
FirstParamAnnotated(fn) ==
    /\ fn.params # <<>>
    /\ fn.params[1].type = "Identifier"
    /\ fn.params[1].typeAnnotation # <<>>

\* the edit that annotates the first parameter, or adds the parameter
ParamFixes(componentNode, propsType) ==
    LET OfFirstParam(fn) ==
            IF fn.params[1].type = "Identifier"
            THEN <<ImportFix(fn.params[1].range[2], fn.params[1].range[2],
                             <<":", propsType>>)>>
            ELSE <<>>
    IN  IF componentNode.type = "FunctionDeclaration"
        THEN IF Len(componentNode.params) > 0 THEN OfFirstParam(componentNode)
             ELSE <<ImportFix(componentNode.id.range[2] + 1, componentNode.id.range[2] + 1,
                              <<"props", ":", propsType>>)>>
        ELSE IF /\ componentNode.type = "VariableDeclarator"
                /\ componentNode.init.type = "ArrowFunctionExpression"
                /\ Len(componentNode.init.params) > 0
        THEN OfFirstParam(componentNode.init)
        ELSE <<>>

\* tokens joined by commas
CommaList(names) ==
    Flatten([i \in DOMAIN names |-> IF i = 1 THEN <<names[i]>> ELSE <<",", names[i]>>])

\* the edit that imports the props type, and the component, from the type
\* import source
TypeImportFixes(typeStrategy, programNode) ==
    IF ~(typeStrategy.needsTypeImport /\ typeStrategy.typeImportSource # "null") THEN <<>>
    ELSE LET reactNativeSvgImport == FirstImport(programNode, typeStrategy.typeImportSource)
         IN  IF reactNativeSvgImport # NoImport
             THEN LET namedSpecifiers ==
                          SelectSeq(reactNativeSvgImport.specifiers,
                                    LAMBDA spec : spec.type = "ImportSpecifier")
                      importedNames == {namedSpecifiers[k].imported :
                                            k \in DOMAIN namedSpecifiers}
                      needsSvgProps == "SvgProps" \notin importedNames
                      needsSvg == typeStrategy.needsComponentImport /\ "Svg" \notin importedNames
                      toAdd == (IF needsSvgProps THEN <<"SvgProps">> ELSE <<>>)
                                  \o (IF needsSvg THEN <<"Svg">> ELSE <<>>)
                      lastSpecifier == namedSpecifiers[Len(namedSpecifiers)]
                  IN  IF (needsSvgProps \/ needsSvg) /\ Len(namedSpecifiers) > 0
                      THEN <<ImportFix(lastSpecifier.range[2], lastSpecifier.range[2],
                                       <<",">> \o CommaList(toAdd))>>
                      ELSE <<>>
             ELSE LET toImport == <<"SvgProps">> \o (IF typeStrategy.needsComponentImport
                                                    THEN <<"Svg">> ELSE <<>>)
                  IN  <<ImportFix(programNode.range[1], programNode.range[1],
                                  <<"import", "{">> \o CommaList(toImport)
                                     \o <<"}", "from", typeStrategy.typeImportSource, ";">>)>>

\* mutant of addTypeAnnotation: an annotated parameter is left alone, but
\* the function goes on to the imports
addTypeAnnotation_NoEarlyReturn(componentNode, typeStrategy, programNode) ==
    LET annotated ==
            \/ componentNode.type = "FunctionDeclaration" /\ FirstParamAnnotated(componentNode)
            \/ /\ componentNode.type = "VariableDeclarator"
               /\ componentNode.init.type = "ArrowFunctionExpression"
               /\ FirstParamAnnotated(componentNode.init)
        fixList == (IF annotated THEN <<>>
                    ELSE ParamFixes(componentNode, typeStrategy.propsType))
                      \o TypeImportFixes(typeStrategy, programNode)
    IN  [fixes |-> fixList, success |-> Len(fixList) > 0]

\* addTypeAnnotation(componentNode, strategy, programNode)
addTypeAnnotation(componentNode, typeStrategy, programNode) ==
    IF \/ componentNode.type = "FunctionDeclaration" /\ FirstParamAnnotated(componentNode)
       \/ /\ componentNode.type = "VariableDeclarator"
          /\ componentNode.init.type = "ArrowFunctionExpression"
          /\ FirstParamAnnotated(componentNode.init)
    THEN [fixes |-> <<>>, success |-> FALSE]
    ELSE LET fixList == ParamFixes(componentNode, typeStrategy.propsType)
                          \o TypeImportFixes(typeStrategy, programNode)
         IN  [fixes |-> fixList, success |-> Len(fixList) > 0]

\* the import declarations and the component of a module to annotate
TypeImportTexts ==
    { <<"import", "{", "SvgProps", "}", "from", "'react-native-svg'", ";">>,
      <<"import", "{", "Svg", "}", "from", "'react-native-svg'", ";">>,
      <<"import", "{", "Svg", ",", "SvgProps", "}", "from", "'react-native-svg'", ";">>,
      <<"import", "Svg", "from", "'react-native-svg'", ";">>,
      <<"import", "React", "from", "'react'", ";">> }

TypeComponentTexts ==
    { <<"function", "Icon", "(", ")", "{}">>,
      <<"function", "Icon", "(", "props", ")", "{}">>,
      <<"function", "Icon", "(", "props", ":", "P", ")", "{}">>,
      <<"function", "Icon", "(", "{a}", ")", "{}">>,
      <<"const", "Icon", "=", "(", ")", "=>", "{}", ";">>,
      <<"const", "Icon", "=", "(", "props", ")", "=>", "{}", ";">>,
      <<"const", "Icon", "=", "(", "props", ":", "P", ")", "=>", "{}", ";">>,
      <<"const", "Icon", "=", "function", "(", "props", ")", "{}", ";">>,
      <<"const", "Icon", "=", "function", "(", "props", ":", "P", ")", "{}", ";">> }

\* the modules annotated: [// c] <imports> <component>
TypeInit ==
    /\ WalkIdle /\ CatchIdle /\ CompIdle /\ SvcIdle /\ HostIdle /\ StyleIdle
    /\ \E lead \in {<<>>, <<"//c">>}, imports \in SeqsUpTo(TypeImportTexts, MaxImports),
          fn \in TypeComponentTexts :
         /\ srcText = lead \o Flatten(imports) \o fn
         /\ componentAt = Len(imports) + 1
    /\ importAnalysis = Unset
    /\ chosen = Unset
    /\ fixEdits = <<>>
    /\ fixSuccess = FALSE
    /\ mdiags = <<>>
    /\ fpc = "component"

\* the node the caller passes as componentNode
ComponentNode(programNode, at) ==
    IF programNode.body[at].type = "VariableDeclaration"
    THEN programNode.body[at].declarator
    ELSE programNode.body[at]

\* const strategy = getTypeAnnotationStrategy(environment, importStyle)
GetTypeAnnotationStrategy ==
    /\ fpc = "component"
    /\ \E environment \in {"REACT_WEB", "REACT_NATIVE"},
          importStyle \in {"NAMESPACE", "DEFAULT_ONLY", "NAMED_ONLY", "MIXED", "NONE"} :
         chosen' = getTypeAnnotationStrategy(environment, importStyle)
    /\ fpc' = "strategy"
    /\ UNCHANGED <<srcText, importAnalysis, componentAt, fixEdits, fixSuccess, mdiags, notFix>>

\* const result = addTypeAnnotation(componentNode, strategy, programNode)
AddTypeAnnotation ==
    /\ fpc = "strategy"
    /\ LET programNode == ParseProgram(srcText)
           result == addTypeAnnotation(ComponentNode(programNode, componentAt), chosen,
                                       programNode)
       IN  /\ fixEdits' = result.fixes
           /\ fixSuccess' = result.success
    /\ fpc' = "annotated"
    /\ UNCHANGED <<srcText, importAnalysis, chosen, componentAt, mdiags, notFix>>

\* the host applies the edits to the text
ApplyAnnotation ==
    /\ fpc = "annotated"
    /\ srcText' = ApplyEdits(srcText, fixEdits)
    /\ fpc' = "rewritten"
    /\ UNCHANGED <<importAnalysis, chosen, componentAt, fixEdits, fixSuccess, mdiags, notFix>>

TypeNext == GetTypeAnnotationStrategy \/ AddTypeAnnotation \/ ApplyAnnotation

TypeSpec == TypeInit /\ [][TypeNext]_vars

(***************************************************************************)
(* Properties of addTypeAnnotation                                         *)
(***************************************************************************)
\* the text holds a function declaration or an arrow function whose first
\* parameter is an identifier with a type annotation
AnnotatedFirstParam(txt) ==
    \E i \in 2..(Len(txt) - 2) :
        /\ txt[i] = "(" /\ txt[i - 1] # "function"
        /\ txt[i + 1] \in IdentifierTokens /\ txt[i + 2] = ":"

\* C18: when the first parameter of the component (a function declaration
\* or a variable-bound arrow function) is an identifier that already has a
\* type annotation, addTypeAnnotation returns success = false and no edit
\* at all, the import edit included.
C18_NoFixWhenAnnotated ==
    (fpc = "annotated" /\ AnnotatedFirstParam(srcText))
        => (fixEdits = <<>> /\ ~fixSuccess)

\* an arrow function with an annotated parameter in a React Native module
\* that lacks the type import: nothing is returned
C18_Witness ==
    /\ fpc = "annotated"
    /\ AnnotatedFirstParam(srcText)
    /\ Includes(srcText, <<"=", "(", "props", ":", "P", ")", "=>">>)
    /\ chosen.needsTypeImport
    /\ \A i \in DOMAIN srcText : srcText[i] # "'react-native-svg'"
    /\ fixEdits = <<>>

\* C19: the edits that addTypeAnnotation or updateImports returns are
\* sorted by ascending start offset and do not overlap, also when a
\* parameter edit and an import edit are returned together.
C19_WellFormedFix ==
    fpc \in {"annotated", "updated"} =>
        \A i, j \in DOMAIN fixEdits :
            i < j => fixEdits[i].range[2] <= fixEdits[j].range[1]

\* the start and end offsets of the ranges of the nodes of the text
NodeOffsets(txt) ==
    LET programNode == ParseProgram(txt)
        Ends(range) == {range[1], range[2]}
        OfFunction(fn) ==
            Ends(fn.range) \cup Ends(fn.body.range)
              \cup UNION {Ends(fn.params[k].range) \cup
                            (IF fn.params[k].typeAnnotation = <<>> THEN {}
                             ELSE Ends(fn.params[k].typeAnnotation)) :
                          k \in DOMAIN fn.params}
        OfStatement(statement) ==
            Ends(statement.range) \cup
            CASE statement.type = "ImportDeclaration" ->
                    Ends(statement.source.range) \cup
                    UNION {Ends(statement.specifiers[k].range) :
                             k \in DOMAIN statement.specifiers}
              [] statement.type = "FunctionDeclaration" ->
                    Ends(statement.id.range) \cup OfFunction(statement)
              [] statement.type = "VariableDeclaration" ->
                    Ends(statement.declarator.range) \cup Ends(statement.declarator.id.range)
                      \cup OfFunction(statement.declarator.init)
              [] OTHER -> Ends(statement.declaration.range)
    IN  Ends(programNode.range) \cup
        UNION {OfStatement(programNode.body[i]) : i \in DOMAIN programNode.body}

\* C20: every offset of an edit that addTypeAnnotation or updateImports
\* returns is the start or the end of the range of a node of the tree.
C20_OffsetsFromRanges ==
    fpc \in {"annotated", "updated"} =>
        \A i \in DOMAIN fixEdits :
            {fixEdits[i].range[1], fixEdits[i].range[2]} \subseteq NodeOffsets(srcText)

(***************************************************************************)
(* no-nested-ternary.  The file is one expression: a tree of conditional   *)
(* expressions `test ? consequent : alternate`, binary expressions and     *)
(* literals.  Parentheses leave no node behind, so `a ? (b ? x : y) : z`   *)
(* has the inner conditional as the consequent of the outer one.           *)
(***************************************************************************)
\* greatest number of conditional and binary expressions in the file
MaxExprNodes == 3

LiteralNode == [type |-> "Literal"]

ConditionalNode(test, consequent, alternate) ==
    [type |-> "ConditionalExpression", test |-> test, consequent |-> consequent,
     alternate |-> alternate]

BinaryNode(left, right) == [type |-> "BinaryExpression", left |-> left, right |-> right]

RECURSIVE ExpressionsOfSize(_)
\* the expressions with exactly n conditional and binary expressions
ExpressionsOfSize(n) ==
    IF n = 0 THEN {LiteralNode}
    ELSE UNION { { ConditionalNode(t, c, a) :
                     t \in ExpressionsOfSize(i), c \in ExpressionsOfSize(j),
                     a \in ExpressionsOfSize(n - 1 - i - j) } :
                 <<i, j>> \in {ij \in (0..(n - 1)) \X (0..(n - 1)) : ij[1] + ij[2] <= n - 1} }
         \cup
         UNION { { BinaryNode(l, r) :
                     l \in ExpressionsOfSize(i), r \in ExpressionsOfSize(n - 1 - i) } :
                 i \in 0..(n - 1) }

Expressions == UNION {ExpressionsOfSize(n) : n \in 0..MaxExprNodes}

\* the child nodes of a node, in traversal order
ChildNodes(node) ==
    CASE node.type = "ConditionalExpression" -> <<node.test, node.consequent, node.alternate>>
      [] node.type = "BinaryExpression" -> <<node.left, node.right>>
      [] OTHER -> <<>>

\* mutant of noNestedTernary: one diagnostic for a conditional with a nested
\* branch, however many of its branches are nested
noNestedTernary_OncePerParent(node) ==
    IF "ConditionalExpression" \in {node.consequent.type, node.alternate.type}
    THEN <<[messageId |-> "noNestedTernary", node |-> node]>>
    ELSE <<>>

\* the reports of the ConditionalExpression handler: one for the consequent
\* and one for the alternate, each if it is itself a conditional expression
noNestedTernary(node) ==
    (IF node.consequent.type = "ConditionalExpression"
     THEN <<[messageId |-> "noNestedTernary", node |-> node.consequent]>>
     ELSE <<>>)
    \o (IF node.alternate.type = "ConditionalExpression"
        THEN <<[messageId |-> "noNestedTernary", node |-> node.alternate]>>
        ELSE <<>>)

TernaryInit ==
    /\ WalkIdle /\ CatchIdle /\ CompIdle /\ SvcIdle /\ FixIdle /\ HostIdle
    /\ program \in Expressions
    /\ todo = <<program>>
    /\ options = Unset
    /\ sdiags = <<>>
    /\ stpc = "ternary"

\* the traversal reaches a conditional expression: the handler runs
ConditionalExpression ==
    /\ stpc = "ternary" /\ todo # <<>>
    /\ Head(todo).type = "ConditionalExpression"
    /\ sdiags' = sdiags \o noNestedTernary(Head(todo))
    /\ todo' = ChildNodes(Head(todo)) \o Tail(todo)
    /\ UNCHANGED <<program, options, stpc, walkVars, catchVars, compVars, svcVars, fixVars,
                   hostVars>>

\* the traversal reaches a node no handler is registered for
OtherExpression ==
    /\ stpc = "ternary" /\ todo # <<>>
    /\ Head(todo).type # "ConditionalExpression"
    /\ todo' = ChildNodes(Head(todo)) \o Tail(todo)
    /\ UNCHANGED <<program, options, sdiags, stpc, walkVars, catchVars, compVars, svcVars,
                   fixVars, hostVars>>

TernaryNext == ConditionalExpression \/ OtherExpression

TernarySpec == TernaryInit /\ [][TernaryNext]_vars

(***************************************************************************)
(* Properties of no-nested-ternary, stated on the expression itself        *)
(***************************************************************************)
RECURSIVE NestedConditionals(_, _)
\* the number of conditional expressions of e that are a branch of a
\* conditional expression; inBranch tells whether e itself is one
NestedConditionals(e, inBranch) ==
    CASE e.type = "ConditionalExpression" ->
            (IF inBranch THEN 1 ELSE 0) + NestedConditionals(e.test, FALSE)
            + NestedConditionals(e.consequent, TRUE) + NestedConditionals(e.alternate, TRUE)
      [] e.type = "BinaryExpression" ->
            NestedConditionals(e.left, FALSE) + NestedConditionals(e.right, FALSE)
      [] OTHER -> 0

RECURSIVE ChainLength(_)
\* n when e is a chain of n conditionals, each but the last holding the next
\* one as one of its branches and literals elsewhere; 0 when e is no chain
ChainLength(e) ==
    IF e.type # "ConditionalExpression" \/ e.test.type # "Literal" THEN 0
    ELSE IF e.consequent.type = "Literal" /\ e.alternate.type = "Literal" THEN 1
    ELSE IF e.consequent.type = "Literal" /\ ChainLength(e.alternate) > 0
    THEN 1 + ChainLength(e.alternate)
    ELSE IF e.alternate.type = "Literal" /\ ChainLength(e.consequent) > 0
    THEN 1 + ChainLength(e.consequent)
    ELSE 0

\* C25: when the traversal is over there is exactly one noNestedTernary
\* diagnostic for each conditional expression that is directly the
\* consequent or the alternate of a conditional expression; so a chain of n
\* conditionals has n - 1, and an expression whose conditionals are not
\* nested in a branch has none.
C25_NestingCount ==
    (stpc = "ternary" /\ todo = <<>>) =>
        /\ Len(sdiags) = NestedConditionals(program, FALSE)
        /\ ChainLength(program) > 0 => Len(sdiags) = ChainLength(program) - 1
        /\ \A i \in 1..Len(sdiags) : sdiags[i].messageId = "noNestedTernary"

\* a ? b ? c ? 'd' : 'e' : 'f' : 'g' traversed: two diagnostics
C25_Witness ==
    /\ stpc = "ternary" /\ todo = <<>>
    /\ program =
         ConditionalNode(LiteralNode,
                         ConditionalNode(LiteralNode,
                                         ConditionalNode(LiteralNode, LiteralNode, LiteralNode),
                                         LiteralNode),
                         LiteralNode)
    /\ Len(sdiags) = 2

(***************************************************************************)
(* boolean-naming-convention.  The file is a sequence of declarators       *)
(* `const name = init`.  A name is the sequence of its pieces, cut before  *)
(* every upper-case letter and after a leading prefix-like piece:          *)
(* isEnabled is <<"is", "Enabled">>, island is <<"is", "land">>.           *)
(***************************************************************************)
\* greatest number of declarators in the file
MaxDeclarators == 2

\* the names declared
DeclaredNames ==
    { <<"is", "Enabled">>, <<"is", "land">>, <<"Is", "Enabled">>, <<"enabled">>,
      <<"open">>, <<"open", "Menu">>, <<"default", "Open">>,
      <<"custom", "Allowed">>, <<"custom", "Prefix">> }

\* the initialisers: true, !someValue, "John", -someValue
Initialisers ==
    { [type |-> "Literal", valueType |-> "boolean", operator |-> ""],
      [type |-> "UnaryExpression", valueType |-> "", operator |-> "!"],
      [type |-> "Literal", valueType |-> "string", operator |-> ""],
      [type |-> "UnaryExpression", valueType |-> "", operator |-> "-"] }

Declarators == [name : DeclaredNames, init : Initialisers]

\* the options a caller may supply: nothing, allowedNames: ['customAllowed'],
\* allowedPrefixes: ['custom'], or both
NamingOptions ==
    [allowedNames : {{}, {<<"custom", "Allowed">>}}, allowedPrefixes : {{}, {"custom"}}]

\* the built-in allow-list of exact names
BuiltinNames == {<<"open">>, <<"inset">>, <<"viewport">>, <<"default", "Open">>}

\* the built-in allow-list of prefixes
BuiltinPrefixes ==
    {"is", "has", "should", "can", "will", "show", "hide", "open", "close", "with", "as"}

\* the piece begins with an upper-case letter
IsCapitalised(piece) == piece \in {"Enabled", "Menu", "Open", "Allowed", "Prefix"}

\* the name starts with the prefix and goes on with an upper-case letter
StartsWithPrefix(name, prefix) ==
    /\ name[1] = prefix
    /\ Len(name) > 1
    /\ IsCapitalised(name[2])

\* the initialiser is a boolean literal or a logical negation
isBooleanInit(init) ==
    \/ init.type = "Literal" /\ init.valueType = "boolean"
    \/ init.type = "UnaryExpression" /\ init.operator = "!"

\* mutant of booleanNaming: lists supplied by the caller replace the
\* built-in ones
booleanNaming_OptionsReplace(declarator, opts) ==
    LET names == IF opts.allowedNames # {} THEN opts.allowedNames ELSE BuiltinNames
        prefixes == IF opts.allowedPrefixes # {} THEN opts.allowedPrefixes
                    ELSE BuiltinPrefixes
    IN  /\ isBooleanInit(declarator.init)
        /\ declarator.name \notin names
        /\ \A prefix \in prefixes : ~StartsWithPrefix(declarator.name, prefix)

\* the declarator violates the convention
booleanNaming(declarator, opts) ==
    /\ isBooleanInit(declarator.init)
    /\ declarator.name \notin BuiltinNames \cup opts.allowedNames
    /\ \A prefix \in BuiltinPrefixes \cup opts.allowedPrefixes :
         ~StartsWithPrefix(declarator.name, prefix)

NamingInit ==
    /\ WalkIdle /\ CatchIdle /\ CompIdle /\ SvcIdle /\ FixIdle /\ HostIdle
    /\ program \in SeqsUpTo(Declarators, MaxDeclarators)
    /\ todo = program
    /\ options \in NamingOptions
    /\ sdiags = <<>>
    /\ stpc = "naming"

\* the traversal reaches the next declarator: the handler runs
NamingDeclarator ==
    /\ stpc = "naming" /\ todo # <<>>
    /\ sdiags' =
         IF booleanNaming(Head(todo), options)
         THEN Append(sdiags, [messageId |-> "booleanNaming",
                              node |-> Len(program) - Len(todo) + 1])
         ELSE sdiags
    /\ todo' = Tail(todo)
    /\ UNCHANGED <<program, options, stpc, walkVars, catchVars, compVars, svcVars, fixVars,
                   hostVars>>

NamingNext == NamingDeclarator

NamingSpec == NamingInit /\ [][NamingNext]_vars

(***************************************************************************)
(* Properties of boolean-naming-convention, stated on the names            *)
(***************************************************************************)
\* the declared names that neither are in the built-in allow-list nor start
\* with a built-in prefix followed by an upper-case letter: island,
\* IsEnabled, enabled, customAllowed, customPrefix
OffendingNames ==
    { <<"is", "land">>, <<"Is", "Enabled">>, <<"enabled">>, <<"custom", "Allowed">>,
      <<"custom", "Prefix">> }

\* the declarator is to be flagged under the options supplied
ToBeFlagged(declarator, opts) ==
    /\ declarator.init.operator = "!" \/ declarator.init.valueType = "boolean"
    /\ declarator.name \in OffendingNames
    /\ ~(declarator.name = <<"custom", "Allowed">>
         /\ <<"custom", "Allowed">> \in opts.allowedNames)
    /\ ~(declarator.name[1] = "custom" /\ "custom" \in opts.allowedPrefixes)

\* C26: when the traversal is over the booleanNaming diagnostics are, in file
\* order, on exactly the declarators that are initialised with a boolean
\* literal or a negation and whose name is neither an allowed name nor
\* starts with an allowed prefix at a camelCase boundary, the caller's lists
\* adding to the built-in ones; a declarator with any other initialiser is
\* never flagged.
C26_BooleanNaming ==
    (stpc = "naming" /\ todo = <<>>) =>
        /\ [i \in 1..Len(sdiags) |-> sdiags[i].node]
             = SelectSeq([i \in 1..Len(program) |-> i],
                         LAMBDA i : ToBeFlagged(program[i], options))
        /\ \A i \in 1..Len(sdiags) : sdiags[i].messageId = "booleanNaming"

\* const customAllowed = true; const open = !someValue; with allowedNames:
\* ['customAllowed'] supplied: neither is flagged
C26_Witness ==
    /\ stpc = "naming" /\ todo = <<>>
    /\ options = [allowedNames |-> {<<"custom", "Allowed">>}, allowedPrefixes |-> {}]
    /\ Len(program) = 2
    /\ program[1].name = <<"custom", "Allowed">> /\ program[1].init.valueType = "boolean"
    /\ program[2].name = <<"open">> /\ program[2].init.operator = "!"
    /\ sdiags = <<>>

Init ==
    \/ WalkInit \/ CatchInit \/ CompInit \/ SvcInit \/ HostInit \/ MemoInit \/ TypeInit
    \/ TernaryInit \/ NamingInit

Next ==
    \/ WalkNext \/ CatchNext \/ CompNext \/ SvcNext \/ HostNext \/ MemoNext \/ TypeNext
    \/ TernaryNext \/ NamingNext

Spec == Init /\ [][Next]_vars

=============================================================================
